---- MODULE Spec2Model ----
(***************************************************************************)
(* A model of the ATT bearer of the BLE host stack (linux/att/client.go):  *)
(* the request operations with their shared transmit-buffer token, sendReq *)
(* with its response / error / timeout select, the receive loop Loop with  *)
(* its routing by opcode, the request-servicing worker asyncReqLoop and    *)
(* the notification dispatcher.  Frames are sequences of bytes; index 1 of *)
(* a TLA+ sequence is byte 0 of the Go slice.                              *)
(***************************************************************************)
EXTENDS Integers, Sequences, FiniteSets, TLC

(***************************************************************************)
(* Bounds of the model.                                                    *)
(***************************************************************************)
\* number of request operations the callers issue in one behaviour
MaxCalls == 2
\* number of frames the receive loop reads in one behaviour
MaxFrames == 2
\* seconds a request is followed after it was written
MaxElapsed == 3
\* number of notifications and indications read where both kinds arrive
MaxNotifs == 3
\* number of indications read where the notification queue fills up
MaxInds == 18
\* number of frames read where one caller runs every operation
MaxOpsFrames == 2

(***************************************************************************)
(* Program constants.                                                      *)
(***************************************************************************)
DefaultMTU == 339
MaxMTU == 515
\* seconds of time.After in sendReq
Timeout == 2
\* capacity of the inc channel (server-bound requests)
IncCap == 10
\* capacity of the asyncWork channel of Loop
NotifCap == 16
\* capacity of chTxBuf and of chErr
TokenCap == 1
ErrCap == 1

\* ATT opcodes (Bluetooth Core, Vol 3 Part F 3.4.8)
ErrorResponseCode == 1
ExchangeMTURequestCode == 2
FindInformationRequestCode == 4
ReadByTypeRequestCode == 8
ReadRequestCode == 10
ReadBlobRequestCode == 12
ReadMultipleRequestCode == 14
ReadByGroupTypeRequestCode == 16
WriteRequestCode == 18
PrepareWriteRequestCode == 22
ExecuteWriteRequestCode == 24
HandleValueNotificationCode == 27
HandleValueIndicationCode == 29
\* the ATT_MTU of a connection on which no MTU was exchanged
AttDefaultMTU == 23

Callers == {"c1", "c2"}

ReqOps == {"ExchangeMTU", "FindInformation", "ReadByType", "Read", "ReadBlob",
           "ReadMultiple", "ReadByGroupType", "Write", "PrepareWrite",
           "ExecuteWrite"}

\* the request opcode each operation writes (SetAttributeOpcode)
ReqCode(o) ==
  CASE o = "ExchangeMTU" -> ExchangeMTURequestCode
    [] o = "FindInformation" -> FindInformationRequestCode
    [] o = "ReadByType" -> ReadByTypeRequestCode
    [] o = "Read" -> ReadRequestCode
    [] o = "ReadBlob" -> ReadBlobRequestCode
    [] o = "ReadMultiple" -> ReadMultipleRequestCode
    [] o = "ReadByGroupType" -> ReadByGroupTypeRequestCode
    [] o = "Write" -> WriteRequestCode
    [] o = "PrepareWrite" -> PrepareWriteRequestCode
    [] o = "ExecuteWrite" -> ExecuteWriteRequestCode

\* rspOfReq: the response opcode paired with a request opcode
rspOfReq(r) == r + 1

\* rsp.AttributeOpcode() of the response type of operation o
RspCode(o) == rspOfReq(ReqCode(o))

\* binary.LittleEndian.Uint16 of two bytes
Uint16(lo, hi) == lo + 256 * hi

(***************************************************************************)
(* Inputs.  An argument is a pair <<a, b>>: the client MTU for             *)
(* ExchangeMTU, <<starth, endh>> for the range operations, the length of   *)
(* the value for Write and PrepareWrite, the number of handles for         *)
(* ReadMultiple.                                                           *)
(***************************************************************************)
ClientMTUs == {185, 339}

\* the arguments the concurrent callers use
ArgsOf(o) ==
  CASE o = "ExchangeMTU" -> {<<m, 0>> : m \in ClientMTUs}
    [] o \in {"FindInformation", "ReadByType", "ReadByGroupType"} -> {<<1, 5>>}
    [] o = "Write" -> {<<2, 0>>, <<600, 0>>}
    [] o = "PrepareWrite" -> {<<2, 0>>}
    [] o = "ReadMultiple" -> {<<2, 0>>}
    [] OTHER -> {<<0, 0>>}

\* the client MTUs one caller tries
OpsClientMTUs == {22, 23, 185, 338, 339, 400, 515, 516}

\* the arguments one caller tries: each check of each operation passes and fails
OpsArgsOf(o) ==
  CASE o = "ExchangeMTU" -> {<<m, 0>> : m \in OpsClientMTUs}
    [] o = "FindInformation" -> {<<0, 5>>, <<1, 5>>, <<6, 5>>}
    [] o \in {"ReadByType", "ReadByGroupType"} -> {<<1, 5>>, <<6, 5>>}
    [] o \in {"Write", "PrepareWrite"} -> {<<2, 0>>, <<600, 0>>}
    [] o = "ReadMultiple" -> {<<1, 0>>, <<2, 0>>, <<300, 0>>}
    [] OTHER -> {<<0, 0>>}

\* the frames the peer sends: response-class frames, requests of the peer,
\* notifications and indications
RspFrames ==
  { <<11, 170>>,             \* ReadResponse
    <<1, 10, 0, 0, 10>> }    \* ErrorResponse, AttrNotFound

ReqFrames == { <<2, 23, 0>> }   \* ExchangeMTURequest of the peer

NotifFrames ==
  { <<27, 18, 0, 170>>,      \* HandleValueNotification
    <<29, 18, 0, 187>> }     \* HandleValueIndication

IndFrames == { <<29, 18, 0, 187>> }

\* response frames of every shape the validation of the operations tells apart
OpsFrames ==
  { <<1, 10, 0, 0, 10>>,     \* ErrorResponse, AttrNotFound
    <<1, 10>>,               \* ErrorResponse cut short
    <<3, 100, 0>>,           \* ExchangeMTUResponse, ServerRxMTU = 100
    <<3, 0, 0>>,             \* ExchangeMTUResponse, ServerRxMTU = 0
    <<3, 3, 2>>,             \* ExchangeMTUResponse, ServerRxMTU = 515
    <<3, 88, 2>>,            \* ExchangeMTUResponse, ServerRxMTU = 600
    <<3, 100>>,              \* ExchangeMTUResponse cut short
    <<5, 1, 19, 0, 2, 41>>,  \* FindInformationResponse, one 16-bit entry
    <<5, 1, 19, 0, 2>>,      \* FindInformationResponse cut short
    <<9, 2, 1, 2>>,          \* ReadByTypeResponse, Length = 2
    <<9, 3, 1, 2>>,          \* ReadByTypeResponse, list no multiple of Length
    <<9, 0, 1, 2>>,          \* ReadByTypeResponse, Length = 0
    <<11, 170>>,             \* ReadResponse
    <<13, 170>>,             \* ReadBlobResponse
    <<15, 170>>,             \* ReadMultipleResponse
    <<17, 0, 1, 2>>,         \* ReadByGroupTypeResponse, Length = 0
    <<17, 2, 1, 2>>,         \* ReadByGroupTypeResponse, Length = 2
    <<19>>,                  \* WriteResponse
    <<23, 18, 0, 0, 0>>,     \* PrepareWriteResponse
    <<23, 18, 0>>,           \* PrepareWriteResponse cut short
    <<25>> }                 \* ExecuteWriteResponse

(***************************************************************************)
(* Argument validation at the head of each request operation.              *)
(***************************************************************************)
ArgValid(o, a, mtu) ==
  CASE o = "ExchangeMTU" -> ~(a[1] < DefaultMTU \/ a[1] > MaxMTU)
    [] o = "FindInformation" -> ~(a[1] = 0 \/ a[1] > a[2])
    [] o \in {"ReadByType", "ReadByGroupType"} -> ~(a[1] > a[2])
    [] o = "Write" -> ~(a[1] > mtu - 3)
    [] o = "PrepareWrite" -> ~(a[1] > mtu - 5)
    [] o = "ReadMultiple" -> ~(a[1] < 2 \/ a[1] * 2 > mtu - 1)
    [] OTHER -> TRUE

\* the length of the slice of txBuf the operation takes for its request
ReqLen(o, a) ==
  CASE o = "ExchangeMTU" -> 3
    [] o = "FindInformation" -> 5
    [] o \in {"ReadByType", "ReadByGroupType"} -> 7
    [] o = "Read" -> 3
    [] o = "ReadBlob" -> 5
    [] o = "ReadMultiple" -> 1 + a[1] * 2
    [] o = "Write" -> 3 + a[1]
    [] o = "PrepareWrite" -> 5 + a[1]
    [] o = "ExecuteWrite" -> 1

(***************************************************************************)
(* Conversion and validation of the response of each operation.           *)
(* kind: ATTError (val = the code), InvalidResponse, OK (val = the value   *)
(* the operation derives from the frame), Fault (a run-time panic).        *)
(***************************************************************************)
Res(k, v, f) == [kind |-> k, val |-> v, frameOp |-> f]

NoResult == Res("none", 0, 0)

\* the variable-length checks that follow the opcode checks
Layout(o, rsp) ==
  CASE o = "ExchangeMTU" ->
         IF Len(rsp) # 3 THEN Res("InvalidResponse", 0, rsp[1])
         ELSE Res("OK", Uint16(rsp[2], rsp[3]), rsp[1])
    [] o = "FindInformation" ->
         IF Len(rsp) < 6 THEN Res("InvalidResponse", 0, rsp[1])
         ELSE IF rsp[2] = 1 /\ ((Len(rsp) - 2) % 4) # 0
           THEN Res("InvalidResponse", 0, rsp[1])
         ELSE IF rsp[2] = 2 /\ ((Len(rsp) - 2) % 18) # 0
           THEN Res("InvalidResponse", 0, rsp[1])
         ELSE Res("OK", rsp[2], rsp[1])
    [] o \in {"ReadByType", "ReadByGroupType"} ->
         IF Len(rsp) < 4 THEN Res("InvalidResponse", 0, rsp[1])
         ELSE IF rsp[2] = 0 THEN Res("Fault", 0, rsp[1])
         ELSE IF ((Len(rsp) - 2) % rsp[2]) # 0
           THEN Res("InvalidResponse", 0, rsp[1])
         ELSE Res("OK", rsp[2], rsp[1])
    [] o \in {"Read", "ReadBlob", "ReadMultiple"} ->
         IF Len(rsp) < 1 THEN Res("InvalidResponse", 0, rsp[1])
         ELSE Res("OK", Len(rsp) - 1, rsp[1])
    [] o = "PrepareWrite" ->
         IF Len(rsp) < 5 THEN Res("InvalidResponse", 0, rsp[1])
         ELSE Res("OK", Len(rsp) - 5, rsp[1])
    [] OTHER -> Res("OK", 0, rsp[1])

ParseRsp(o, rsp) ==
  IF rsp[1] = ErrorResponseCode /\ Len(rsp) = 5
    THEN Res("ATTError", rsp[5], rsp[1])
  ELSE IF o # "ExecuteWrite" /\ rsp[1] = ErrorResponseCode /\ Len(rsp) # 5
    THEN Res("InvalidResponse", 0, rsp[1])
  ELSE IF rsp[1] # RspCode(o)
    THEN Res("InvalidResponse", 0, rsp[1])
  ELSE Layout(o, rsp)

\* a test that takes any frame from rspc as the response
IsRspForAny(o, rsp) == TRUE

\* sendReq's test of a frame taken from rspc
IsRspFor(o, rsp) ==
  rsp[1] = ErrorResponseCode \/ rsp[1] = rspOfReq(ReqCode(o))

VARIABLES
  pc,           \* per caller: idle, acquire, wait, done
  op,           \* per caller: the operation called
  arg,          \* per caller: its argument
  held,         \* per caller: the txBuf taken from chTxBuf (a sequence of lengths)
  result,       \* per caller: what the last call returned
  timer,        \* per caller: seconds since the current time.After was created
  elapsed,      \* per caller: seconds since the request was written
  discSeen,     \* per caller: disconnected while it waited, its timer not due
  sentAt,       \* per caller: the frames Loop had read when the request was
                \* written (0 while no request is written)
  chTxBuf,      \* the token channel: the lengths of the buffers in it
  txMTU,        \* l2c.TxMTU()
  rxMTU,        \* l2c.RxMTU()
  lpc,          \* Loop: start, top, read, postread, route, confirm, exited
  lb,           \* Loop: the frame b
  lerr,         \* Loop: the error of the last Read
  lseq,         \* Loop: the number of the frame b in reading order
  sawServer,    \* Loop: c.server != nil when Loop started
  inc,          \* the inc channel
  incClosed,    \* close(c.inc) was executed
  apc,          \* asyncReqLoop: off, top, recv, resp, exited
  handled,      \* the values passed to server.HandleRequest
  ch,           \* the asyncWork channel of Loop
  chClosed,     \* close(ch) was executed
  handling,     \* dispatcher: the frame number whose handler runs, or 0
  delivered,    \* the frame numbers whose handler returned, in order
  chErr,        \* the chErr channel
  done,         \* the done channel is closed
  disconnected, \* l2c.Disconnected() is closed
  connClosed,   \* c.connClosed is closed
  nread,        \* frames read so far
  ncalls,       \* request operations called so far
  nInd,         \* indication frames Loop took as b
  nConf,        \* HandleValueConfirmation frames written to the peer
  errRsps,      \* the ErrorResponse frames sendReq wrote for stray frames
  panicked      \* a goroutine panicked: the process is gone

attVars == <<pc, op, arg, held, result, timer, elapsed, discSeen, sentAt,
             chTxBuf, txMTU,
             rxMTU, lpc, lb, lerr, lseq, sawServer, inc, incClosed, apc, handled,
             ch, chClosed, handling, delivered, chErr, done,
             disconnected, connClosed, nread, ncalls, nInd, nConf, errRsps,
             panicked>>

callerVars == <<pc, op, arg, held, result, timer, elapsed>>
mtuVars == <<txMTU, rxMTU>>
loopVars == <<lpc, lb, lerr, lseq, sawServer, nread, nInd, nConf>>
asyncVars == <<inc, incClosed, apc, handled>>
notifVars == <<ch, chClosed, handling, delivered>>
connVars == <<done, disconnected, connClosed>>

\* NewClient: the channels are empty but chTxBuf, which holds a buffer of
\* l2c.TxMTU() bytes
Init ==
  /\ pc = [c \in Callers |-> "idle"]
  /\ op = [c \in Callers |-> "none"]
  /\ arg = [c \in Callers |-> <<0, 0>>]
  /\ held = [c \in Callers |-> <<>>]
  /\ result = [c \in Callers |-> NoResult]
  /\ timer = [c \in Callers |-> 0]
  /\ elapsed = [c \in Callers |-> 0]
  /\ discSeen = [c \in Callers |-> FALSE]
  /\ sentAt = [c \in Callers |-> 0]
  /\ txMTU = AttDefaultMTU
  /\ rxMTU = AttDefaultMTU
  /\ chTxBuf = <<AttDefaultMTU>>
  /\ lpc = "start"
  /\ lb = <<>>
  /\ lerr = "nil"
  /\ lseq = 0
  /\ sawServer = FALSE
  /\ inc = <<>>
  /\ incClosed = FALSE
  /\ apc = "off"
  /\ handled = {}
  /\ ch = <<>>
  /\ chClosed = FALSE
  /\ handling = 0
  /\ delivered = <<>>
  /\ chErr = <<>>
  /\ done = FALSE
  /\ disconnected = FALSE
  /\ connClosed = FALSE
  /\ nread = 0
  /\ ncalls = 0
  /\ nInd = 0
  /\ nConf = 0
  /\ errRsps = <<>>
  /\ panicked = FALSE


(***************************************************************************)
(* The token channel chTxBuf.                                              *)
(***************************************************************************)
\* a receive that leaves the buffer in the channel
TakeTokenKeep(q) == q

\* txBuf := <-c.chTxBuf : what stays in the channel
TakeToken(q) == Tail(q)

\* a release that puts nothing back
PutTokenNone(q, b) == q

\* c.chTxBuf <- txBuf : what the channel holds afterwards
PutToken(q, b) == Append(q, b)

\* the deferred release of the buffer b by caller c, returning r; the
\* operation and its argument are gone with the call
Release(c, b, r) ==
  /\ Len(IF pc[c] = "acquire" THEN TakeToken(chTxBuf) ELSE chTxBuf) < TokenCap
  /\ chTxBuf' = PutToken(IF pc[c] = "acquire" THEN TakeToken(chTxBuf)
                                             ELSE chTxBuf, b)
  /\ held' = [held EXCEPT ![c] = <<>>]
  /\ result' = [result EXCEPT ![c] = r]
  /\ pc' = [pc EXCEPT ![c] = "done"]
  /\ op' = [op EXCEPT ![c] = "none"]
  /\ arg' = [arg EXCEPT ![c] = <<0, 0>>]
  /\ timer' = [timer EXCEPT ![c] = 0]
  /\ elapsed' = [elapsed EXCEPT ![c] = 0]
  /\ sentAt' = [sentAt EXCEPT ![c] = 0]
  /\ panicked' = (r.kind = "Fault")

\* l2c.Write fails once the connection is gone
WriteOK == ~disconnected

(***************************************************************************)
(* The request operations (ExchangeMTU ... ExecuteWrite).                  *)
(***************************************************************************)
\* the head of a request operation: the argument checks; a rejected call
\* returns at once
Call(c, o, a) ==
  /\ ~panicked
  /\ pc[c] \in {"idle", "done"}
  /\ ncalls < MaxCalls
  /\ ncalls' = ncalls + 1
  /\ discSeen' = [discSeen EXCEPT ![c] = FALSE]
  /\ sentAt' = sentAt
  /\ op' = [op EXCEPT ![c] = o]
  /\ arg' = [arg EXCEPT ![c] = a]
  /\ IF ArgValid(o, a, txMTU)
       THEN /\ pc' = [pc EXCEPT ![c] = "acquire"]
            /\ result' = [result EXCEPT ![c] = NoResult]
       ELSE /\ pc' = [pc EXCEPT ![c] = "done"]
            /\ result' = [result EXCEPT ![c] = Res("InvalidArgument", 0, 0)]
  /\ UNCHANGED <<held, timer, elapsed, chTxBuf, mtuVars, errRsps, loopVars, asyncVars,
                 notifVars, chErr, connVars, panicked>>

\* txBuf := <-c.chTxBuf, the request is built in txBuf and written by sendReq
Acquire(c) ==
  /\ ~panicked
  /\ pc[c] = "acquire"
  /\ chTxBuf # <<>>
  /\ rxMTU' = IF op[c] = "ExchangeMTU" THEN arg[c][1] ELSE rxMTU
  /\ LET b == Head(chTxBuf) IN
       IF ReqLen(op[c], arg[c]) > b
         THEN \* txBuf[:n] beyond the capacity of the buffer
              /\ Release(c, b, Res("Fault", 0, 0))
       ELSE IF ~WriteOK
         THEN /\ Release(c, b, Res("WriteFailed", 0, 0))
       ELSE /\ chTxBuf' = TakeToken(chTxBuf)
            /\ held' = [held EXCEPT ![c] = <<b>>]
            /\ pc' = [pc EXCEPT ![c] = "wait"]
            /\ timer' = [timer EXCEPT ![c] = 0]
            /\ elapsed' = [elapsed EXCEPT ![c] = 0]
            /\ sentAt' = [sentAt EXCEPT ![c] = nread]
            /\ UNCHANGED <<op, arg, result, panicked>>
  /\ UNCHANGED <<discSeen, txMTU, errRsps, loopVars, asyncVars, notifVars,
                 chErr, connVars, ncalls>>

\* ExchangeMTU after a valid response: the MTU the connection gets
NewTxMTU(clientRxMTU, serverRxMTU) == serverRxMTU

\* ble.ErrReqNotSupp
ErrReqNotSupp == 6

\* newErrorResponse(op, h, s): the bytes of an ErrorResponse
newErrorResponse(o, h, s) == <<ErrorResponseCode, o, h % 256, h \div 256, s>>

\* an answer that names the opcode of the request b
CrossTalkRspToReq(b0, rsp) == newErrorResponse(b0, 0, ErrReqNotSupp)

\* errRsp of sendReq for the frame rsp that is no response to the request
\* with the opcode b0
CrossTalkRsp(b0, rsp) == newErrorResponse(rsp[1], 0, ErrReqNotSupp)

\* a test that knows the indication only
IsNotifInd(b) == b[1] = HandleValueIndicationCode

\* Loop's test for a notification or an indication
IsNotif(b) ==
  b[1] = HandleValueNotificationCode \/ b[1] = HandleValueIndicationCode

\* case rsp := <-c.rspc of sendReq, together with Loop's c.rspc <- b; a
\* matching frame is returned, converted and validated by the operation
RecvRsp(c) ==
  /\ ~panicked
  /\ pc[c] = "wait"
  /\ lpc = "route"
  /\ lb[1] % 2 = 1
  /\ ~IsNotif(lb)
  /\ lpc' = "top"
  /\ lb' = <<>>
  /\ IF IsRspFor(op[c], lb)
       THEN LET r == ParseRsp(op[c], lb)
                b == held[c][1]
                m == NewTxMTU(arg[c][1], r.val)
                resize == op[c] = "ExchangeMTU" /\ r.kind = "OK" /\ b # m
            IN /\ txMTU' = IF resize THEN m ELSE txMTU
               /\ Release(c, IF resize THEN m ELSE b, r)
               /\ UNCHANGED errRsps
       ELSE IF WriteOK
         THEN \* the ErrorResponse is written, the select is entered again
              /\ errRsps' = Append(errRsps, CrossTalkRsp(ReqCode(op[c]), lb))
              /\ timer' = [timer EXCEPT ![c] = 0]
              /\ UNCHANGED <<txMTU, chTxBuf, held, result, pc, op, arg,
                             elapsed, sentAt, panicked>>
         ELSE /\ Release(c, held[c][1], Res("WriteFailed", 0, 0))
              /\ UNCHANGED <<txMTU, errRsps>>
  /\ UNCHANGED <<discSeen, rxMTU, lerr, lseq, sawServer,
                 nread, nInd, nConf, asyncVars, notifVars, chErr, connVars,
                 ncalls>>

\* case err := <-c.chErr of sendReq
RecvErr(c) ==
  /\ ~panicked
  /\ pc[c] = "wait"
  /\ chErr # <<>>
  /\ chErr' = Tail(chErr)
  /\ Release(c, held[c][1], Res(Head(chErr), 0, 0))
  /\ UNCHANGED <<discSeen, mtuVars, errRsps, loopVars,
                 asyncVars, notifVars, connVars, ncalls>>

\* case <-time.After(2 * time.Second) of sendReq
TimeoutFire(c) ==
  /\ ~panicked
  /\ pc[c] = "wait"
  /\ timer[c] = Timeout
  /\ Release(c, held[c][1], Res("SeqProtoTimeout", 0, 0))
  /\ UNCHANGED <<discSeen, mtuVars, errRsps, loopVars,
                 asyncVars, notifVars, chErr, connVars, ncalls>>

\* one second passes; a timer that is due fires before more time passes
Tick ==
  /\ ~panicked
  /\ \E c \in Callers : pc[c] = "wait"
  /\ \A c \in Callers :
       pc[c] = "wait" => timer[c] < Timeout /\ elapsed[c] < MaxElapsed
  /\ timer' = [c \in Callers |->
                 IF pc[c] = "wait" THEN timer[c] + 1 ELSE timer[c]]
  /\ elapsed' = [c \in Callers |->
                   IF pc[c] = "wait" THEN elapsed[c] + 1 ELSE elapsed[c]]
  /\ UNCHANGED <<pc, op, arg, held, result, discSeen, sentAt, chTxBuf,
                 mtuVars, errRsps, loopVars, asyncVars, notifVars, chErr, connVars, ncalls,
                 panicked>>


(***************************************************************************)
(* The receive loop Loop.                                                  *)
(***************************************************************************)
\* the deferred calls of Loop: close(ch), and close(c.inc) with a server
LoopReturn ==
  /\ lpc' = "exited"
  /\ lb' = <<>>
  /\ chClosed' = TRUE
  /\ incClosed' = sawServer

\* the entry of Loop: the dispatcher is started, and asyncReqLoop when
\* c.server is set (WithServer may run before or after Loop starts)
LoopStart ==
  /\ ~panicked
  /\ lpc = "start"
  /\ \E s \in BOOLEAN :
       /\ sawServer' = s
       /\ apc' = IF s THEN "top" ELSE "off"
  /\ lpc' = "top"
  /\ UNCHANGED <<callerVars, discSeen, sentAt, chTxBuf, mtuVars, errRsps, lb, lerr, lseq, nread,
                 nInd, nConf, inc, incClosed, handled, notifVars, chErr,
                 connVars, ncalls, panicked>>

\* the select at the head of an iteration
LoopTop ==
  /\ ~panicked
  /\ lpc = "top"
  /\ IF done \/ connClosed
       THEN LoopReturn
       ELSE /\ lpc' = "read"
            /\ UNCHANGED <<lb, chClosed, incClosed>>
  /\ UNCHANGED <<callerVars, discSeen, sentAt, chTxBuf, mtuVars, errRsps, lerr, lseq, sawServer,
                 nread, nInd, nConf, inc, apc, handled, ch, handling,
                 delivered, chErr, connVars, ncalls, panicked>>

\* n, err := c.l2c.Read(c.rxBuf) returns a frame of the peer
LoopReadFrame(frames, max) ==
  /\ ~panicked
  /\ lpc = "read"
  /\ ~disconnected
  /\ nread < max
  /\ \E f \in frames : lb' = f
  /\ nread' = nread + 1
  /\ lseq' = nread + 1
  /\ lerr' = "nil"
  /\ lpc' = "postread"
  /\ UNCHANGED <<callerVars, discSeen, sentAt, chTxBuf, mtuVars, errRsps, sawServer, nInd, nConf,
                 asyncVars, notifVars, chErr, connVars, ncalls, panicked>>

\* n, err := c.l2c.Read(c.rxBuf) returns an error: io.ErrClosedPipe once the
\* connection is gone, an error of the transport before
LoopReadErr ==
  /\ ~panicked
  /\ lpc = "read"
  /\ lerr' = IF disconnected THEN "closedPipe" ELSE "ioerr"
  /\ lpc' = "postread"
  /\ UNCHANGED <<callerVars, discSeen, sentAt, chTxBuf, mtuVars, errRsps, lb, lseq, nread,
                 sawServer, nInd, nConf, asyncVars, notifVars, chErr, connVars,
                 ncalls, panicked>>

\* the select after Read: return on done or connClosed, else pass a read
\* error to chErr and return, else take the frame as b
LoopPostRead ==
  /\ ~panicked
  /\ lpc = "postread"
  /\ IF done \/ connClosed
       THEN /\ LoopReturn
            /\ UNCHANGED <<chErr, nInd>>
       ELSE IF lerr # "nil"
         THEN /\ Len(chErr) < ErrCap
              /\ chErr' = Append(chErr, IF lerr = "closedPipe"
                                          THEN "Disconnected"
                                          ELSE "BearerError")
              /\ LoopReturn
              /\ UNCHANGED nInd
         ELSE /\ lpc' = "route"
              /\ nInd' = IF lb[1] = HandleValueIndicationCode
                           THEN nInd + 1 ELSE nInd
              /\ UNCHANGED <<lb, chErr, chClosed, incClosed>>
  /\ lerr' = "nil"
  /\ UNCHANGED <<callerVars, discSeen, sentAt, chTxBuf, mtuVars, errRsps, lseq, sawServer,
                 nread, nConf, inc, apc, handled, ch, handling, delivered,
                 connVars, ncalls, panicked>>

\* case <-c.done / case <-c.connClosed of the three routing selects
LoopRouteClosed ==
  /\ ~panicked
  /\ lpc = "route"
  /\ done \/ connClosed
  /\ LoopReturn
  /\ UNCHANGED <<callerVars, discSeen, sentAt, chTxBuf, mtuVars, errRsps, lerr, lseq, sawServer,
                 nread, nInd, nConf, inc, apc, handled, ch, handling,
                 delivered, chErr, connVars, ncalls, panicked>>

\* an even opcode: c.inc <- b, or the default branch when inc is full
LoopRouteReq ==
  /\ ~panicked
  /\ lpc = "route"
  /\ lb[1] % 2 = 0
  /\ IF Len(inc) < IncCap
       THEN inc' = Append(inc, lb)
       ELSE /\ ~(done \/ connClosed)
            /\ inc' = inc
  /\ lpc' = "top"
  /\ lb' = <<>>
  /\ UNCHANGED <<callerVars, discSeen, sentAt, chTxBuf, mtuVars, errRsps, lerr, lseq, sawServer,
                 nread, nInd, nConf, incClosed, apc, handled, notifVars,
                 chErr, connVars, ncalls, panicked>>

\* a queue that takes the new item at its front
EnqueueFront(q, w) == <<w>> \o q

\* the asyncWork queue after ch <- w
Enqueue(q, w) == Append(q, w)

\* a confirmation written for the wrong kind of frame
MustConfirmNotif(b) == b[1] = HandleValueNotificationCode

\* whether the confirmation is written after the frame b
MustConfirm(b) == b[1] = HandleValueIndicationCode

\* a notification or an indication: ch <- asyncWork{...}, or the default
\* branch when ch is full
LoopRouteNotif ==
  /\ ~panicked
  /\ lpc = "route"
  /\ lb[1] % 2 = 1
  /\ IsNotif(lb)
  /\ LET room == Len(ch) < NotifCap IN
       /\ IF room
            THEN ch' = Enqueue(ch, [id |-> lseq, data |-> lb])
            ELSE /\ ~(done \/ connClosed)
                 /\ ch' = ch
       /\ IF MustConfirm(lb)
            THEN /\ lpc' = "confirm"
                 /\ lb' = lb
            ELSE /\ lpc' = "top"
                 /\ lb' = <<>>
  /\ UNCHANGED <<callerVars, discSeen, sentAt, chTxBuf, mtuVars, errRsps, lerr, lseq, sawServer,
                 nread, nInd, nConf, asyncVars, chClosed, handling, delivered,
                 chErr, connVars, ncalls, panicked>>

\* _, _ = c.l2c.Write(confirmation)
LoopConfirm ==
  /\ ~panicked
  /\ lpc = "confirm"
  /\ nConf' = IF WriteOK THEN nConf + 1 ELSE nConf
  /\ lpc' = "top"
  /\ lb' = <<>>
  /\ UNCHANGED <<callerVars, discSeen, sentAt, chTxBuf, mtuVars, errRsps, lerr, lseq, sawServer,
                 nread, nInd, asyncVars, notifVars, chErr, connVars, ncalls,
                 panicked>>

(***************************************************************************)
(* The notification dispatcher: for w := range ch { w.handle(w.data) }.    *)
(***************************************************************************)
\* a dispatcher that takes the newest work item
NextWorkLast(q) == Len(q)

\* the place in the queue of the work item the dispatcher takes
NextWork(q) == 1

DispatchStart ==
  /\ ~panicked
  /\ handling = 0
  /\ ch # <<>>
  /\ LET i == NextWork(ch) IN
       /\ handling' = ch[i].id
       /\ ch' = [j \in 1..(Len(ch) - 1) |-> IF j < i THEN ch[j] ELSE ch[j + 1]]
  /\ UNCHANGED <<callerVars, discSeen, sentAt, chTxBuf, mtuVars, errRsps, loopVars, asyncVars,
                 chClosed, delivered, chErr, connVars, ncalls, panicked>>

DispatchEnd ==
  /\ ~panicked
  /\ handling # 0
  /\ delivered' = Append(delivered, handling)
  /\ handling' = 0
  /\ UNCHANGED <<callerVars, discSeen, sentAt, chTxBuf, mtuVars, errRsps, loopVars, asyncVars,
                 ch, chClosed, chErr, connVars, ncalls, panicked>>

(***************************************************************************)
(* The request-servicing worker asyncReqLoop and sendResp.                 *)
(***************************************************************************)
AsyncTop ==
  /\ ~panicked
  /\ apc = "top"
  /\ apc' = IF done \/ connClosed THEN "exited" ELSE "recv"
  /\ UNCHANGED <<callerVars, discSeen, sentAt, chTxBuf, mtuVars, errRsps, loopVars, inc,
                 incClosed, handled, notifVars, chErr, connVars, ncalls,
                 panicked>>

\* in := <-c.inc; rsp := c.server.HandleRequest(in): a closed and empty
\* channel yields the nil slice
AsyncRecv ==
  /\ ~panicked
  /\ apc = "recv"
  /\ inc # <<>> \/ incClosed
  /\ LET in == IF inc # <<>> THEN Head(inc) ELSE <<>> IN
       handled' = handled \cup {in}
  /\ inc' = IF inc # <<>> THEN Tail(inc) ELSE inc
  /\ \E rspNil \in BOOLEAN : apc' = IF rspNil THEN "top" ELSE "resp"
  /\ UNCHANGED <<callerVars, discSeen, sentAt, chTxBuf, mtuVars, errRsps, loopVars, incClosed,
                 notifVars, chErr, connVars, ncalls, panicked>>

\* sendResp: the token is taken, the response written, the token put back
AsyncSendResp ==
  /\ ~panicked
  /\ apc = "resp"
  /\ chTxBuf # <<>>
  /\ chTxBuf' = PutToken(TakeToken(chTxBuf), Head(chTxBuf))
  /\ apc' = "top"
  /\ UNCHANGED <<callerVars, discSeen, sentAt, mtuVars, errRsps, loopVars, inc, incClosed, handled, notifVars, chErr, connVars, ncalls, panicked>>

(***************************************************************************)
(* The connection and the owner of the client.                             *)
(***************************************************************************)
\* the done channel is closed by the owner
CloseDone ==
  /\ ~panicked
  /\ ~done
  /\ done' = TRUE
  /\ UNCHANGED <<callerVars, discSeen, sentAt, chTxBuf, mtuVars, errRsps, loopVars, asyncVars,
                 notifVars, chErr, disconnected, connClosed, ncalls, panicked>>

\* the controller reports the disconnection: l2c.Disconnected() is closed
Disconnect ==
  /\ ~panicked
  /\ ~disconnected
  /\ disconnected' = TRUE
  /\ discSeen' = [c \in Callers |-> pc[c] = "wait" /\ timer[c] < Timeout]
  /\ UNCHANGED <<callerVars, sentAt, chTxBuf, mtuVars, errRsps, loopVars, asyncVars,
                 notifVars, chErr, done, connClosed, ncalls, panicked>>

\* the goroutine of NewClient: <-l2c.Disconnected(); close(c.connClosed)
WatchDisconnected ==
  /\ ~panicked
  /\ disconnected
  /\ ~connClosed
  /\ connClosed' = TRUE
  /\ UNCHANGED <<callerVars, discSeen, sentAt, chTxBuf, mtuVars, errRsps, loopVars, asyncVars,
                 notifVars, chErr, done, disconnected, ncalls, panicked>>

(***************************************************************************)
(* The SMP manager of one connection (linux/hci/smp): Pair on the caller's *)
(* goroutine, Handle on the connection's receive path.                     *)
(***************************************************************************)
\* PairingState
PairingStates ==
  <<"Init", "WaitPairingResponse", "WaitPublicKey", "WaitConfirm",
    "WaitRandom", "WaitDhKeyCheck", "Finished", "Error">>

\* time.Minute, in seconds
DefaultPairTimeout == 60

\* the reason of the PairingFailed answer to an unhandled code
PairingNotSupported == 5

\* the SMP codes with an entry and a handler in the dispatcher table
HandledCodes == {1, 2, 3, 4, 5, 12, 13}

\* the codes of the frames the peer sends
SmpCodes == {3, 13, 14}

\* the durations Pair is called with, in seconds
PairTimeouts == {-1, 0, 2}

\* the authData Pair is called with
AuthDatas == {"a1", "a2"}

VARIABLES
  pstate,       \* m.t.pairing.state
  authData,     \* m.t.pairing.authData
  resultClosed, \* m.result is closed
  nClose,       \* close(m.result) executed so far
  ppc,          \* the Pair call: idle, start, wait, done
  pto,          \* its timeout after the default was applied
  ptimer,       \* seconds it has spent in waitResult
  prets,        \* what the Pair calls returned, in order
  hpc,          \* Handle: idle, or send (blocked in m.result <- err)
  hcode,        \* the code of the frame Handle took last
  nHandled,     \* frames given to Handle so far
  nInFinished,  \* those of them that found the pairing Finished
  sentReq,      \* PairingRequest frames sent
  sentFailed,   \* reasons of the PairingFailed frames Handle sent
  smpPanicked   \* a goroutine of the manager panicked

smpVars == <<pstate, authData, resultClosed, nClose, ppc, pto, ptimer, prets,
             hpc, hcode, nHandled, nInFinished, sentReq, sentFailed,
             smpPanicked>>

pairVars == <<ppc, pto, ptimer, prets>>

\* NewSmpManager
SmpInit ==
  /\ pstate = "Init"
  /\ authData = "none"
  /\ resultClosed = FALSE
  /\ nClose = 0
  /\ ppc = "idle"
  /\ pto = 0
  /\ ptimer = 0
  /\ prets = <<>>
  /\ hpc = "idle"
  /\ hcode = 0
  /\ nHandled = 0
  /\ nInFinished = 0
  /\ sentReq = 0
  /\ sentFailed = <<>>
  /\ smpPanicked = FALSE

\* calls of Pair and frames given to Handle in one run
MaxPairs == 2
MaxSmpFrames == 4

\* Pair: the test of the pairing state
PairAllowedAlways(s) == TRUE

PairAllowed(s) == s = "Init"

\* Pair: the default of the timeout
EffectiveTimeout(to) == IF to <= 0 THEN DefaultPairTimeout ELSE to

\* Handle: the dispatcher has an entry with a handler for the code
HasHandlerAll(code) == TRUE

HasHandler(code) == code \in HandledCodes

\* Handle: whether case <-m.result of its select can proceed; nothing else
\* sends on the channel while Handle runs, so only when it is closed
ResultReadyNever == FALSE

ResultReady == resultClosed

\* the states a handler that succeeds can leave the pairing in
HandlerNext(s) ==
  CASE s = "Init" -> {"Init", "WaitPublicKey", "WaitConfirm"}
    [] s = "WaitPairingResponse" ->
         {"WaitPairingResponse", "WaitPublicKey", "WaitConfirm"}
    [] s = "WaitPublicKey" -> {"WaitPublicKey", "WaitConfirm"}
    [] s = "WaitConfirm" -> {"WaitConfirm", "WaitRandom"}
    [] s = "WaitRandom" -> {"WaitRandom", "WaitDhKeyCheck", "Finished"}
    [] s = "WaitDhKeyCheck" -> {"WaitDhKeyCheck", "Finished"}
    [] OTHER -> {s}

\* Pair up to the call of StartPairing
Pair(a, to) ==
  /\ ~smpPanicked
  /\ ppc \in {"idle", "done"}
  /\ Len(prets) < MaxPairs
  /\ IF ~PairAllowed(pstate)
       THEN /\ ppc' = "done"
            /\ prets' = Append(prets, "InProgress")
            /\ UNCHANGED <<authData, pto, ptimer>>
       ELSE /\ ppc' = "start"
            /\ authData' = a
            /\ pto' = EffectiveTimeout(to)
            /\ ptimer' = 0
            /\ UNCHANGED prets
  /\ UNCHANGED <<pstate, resultClosed, nClose, hpc, hcode, nHandled,
                 nInFinished, sentReq, sentFailed, smpPanicked>>

\* m.t.StartPairing(to): the PairingRequest is sent and the pairing waits for
\* the response, or the write fails and Pair returns the error
StartPairing ==
  /\ ~smpPanicked
  /\ ppc = "start"
  /\ \/ /\ sentReq' = sentReq + 1
        /\ pstate' = "WaitPairingResponse"
        /\ ppc' = "wait"
        /\ UNCHANGED prets
     \/ /\ ppc' = "done"
        /\ prets' = Append(prets, "StartFailed")
        /\ UNCHANGED <<sentReq, pstate>>
  /\ UNCHANGED <<authData, resultClosed, nClose, pto, ptimer, hpc, hcode,
                 nHandled, nInFinished, sentFailed, smpPanicked>>

\* waitResult: case err := <-m.result on the closed channel
WaitResultClosed ==
  /\ ~smpPanicked
  /\ ppc = "wait"
  /\ resultClosed
  /\ ppc' = "done"
  /\ prets' = Append(prets, "nil")
  /\ UNCHANGED <<pstate, authData, resultClosed, nClose, pto, ptimer, hpc,
                 hcode, nHandled, nInFinished, sentReq, sentFailed,
                 smpPanicked>>

\* Handle's m.result <- err meets waitResult's receive
HandleSendResult ==
  /\ ~smpPanicked
  /\ hpc = "send"
  /\ ppc = "wait"
  /\ hpc' = "idle"
  /\ ppc' = "done"
  /\ prets' = Append(prets, "HandlerError")
  /\ UNCHANGED <<pstate, authData, resultClosed, nClose, pto, ptimer, hcode,
                 nHandled, nInFinished, sentReq, sentFailed, smpPanicked>>

\* waitResult: case <-time.After(to)
PairTimeout ==
  /\ ~smpPanicked
  /\ ppc = "wait"
  /\ ptimer >= pto
  /\ ppc' = "done"
  /\ prets' = Append(prets, "Timeout")
  /\ UNCHANGED <<pstate, authData, resultClosed, nClose, pto, ptimer, hpc,
                 hcode, nHandled, nInFinished, sentReq, sentFailed,
                 smpPanicked>>

\* a second passes while Pair is in waitResult
SmpTick ==
  /\ ~smpPanicked
  /\ ppc = "wait"
  /\ ptimer < pto
  /\ ptimer' = ptimer + 1
  /\ UNCHANGED <<pstate, authData, resultClosed, nClose, ppc, pto, prets, hpc,
                 hcode, nHandled, nInFinished, sentReq, sentFailed,
                 smpPanicked>>

\* Handle(in) for a frame with the given code, up to its return or to the
\* point where it blocks
Handle(code) ==
  /\ ~smpPanicked
  /\ hpc = "idle"
  /\ nHandled < MaxSmpFrames
  /\ hcode' = code
  /\ nHandled' = nHandled + 1
  /\ nInFinished' = nInFinished + (IF pstate = "Finished" THEN 1 ELSE 0)
  /\ IF ~HasHandler(code)
       THEN /\ sentFailed' = Append(sentFailed, PairingNotSupported)
            /\ UNCHANGED <<pstate, resultClosed, nClose, hpc, smpPanicked>>
       ELSE /\ UNCHANGED sentFailed
            /\ \/ \* the handler returns an error
                  /\ pstate' = "Error"
                  /\ IF resultClosed
                       THEN smpPanicked' = TRUE /\ UNCHANGED hpc
                       ELSE hpc' = "send" /\ UNCHANGED smpPanicked
                  /\ UNCHANGED <<resultClosed, nClose>>
               \/ \* the handler succeeds
                  \E ns \in HandlerNext(pstate) :
                    /\ pstate' = ns
                    /\ UNCHANGED hpc
                    /\ IF ns = "Finished" /\ ~ResultReady
                         THEN /\ nClose' = nClose + 1
                              /\ resultClosed' = TRUE
                              /\ smpPanicked' = resultClosed
                         ELSE UNCHANGED <<resultClosed, nClose, smpPanicked>>
  /\ UNCHANGED <<authData, pairVars, sentReq>>

(***************************************************************************)
(* The GATT client (package gatt): discovery of services, characteristics  *)
(* and descriptors over the request operations of the ATT client.          *)
(***************************************************************************)
\* discovery calls in one run, and entries the peer puts in one response
MaxGattCalls == 2
MaxPerRsp == 2

\* requests one DiscoverServices call sends to a peer that answers anything
MaxAnyReqs == 3

\* ATT error codes: Invalid Handle, Attribute Not Found
ErrInvalidHandle == 1
ErrAttrNotFound == 10

\* the response opcodes of the three discovery requests
FindInformationResponseCode == rspOfReq(FindInformationRequestCode)
ReadByTypeResponseCode == rspOfReq(ReadByTypeRequestCode)
ReadByGroupTypeResponseCode == rspOfReq(ReadByGroupTypeRequestCode)

\* the last handle, and uint16 arithmetic
MaxHandle == 65535

Wrap16(n) == n % 65536

\* binary.LittleEndian: the two bytes of a handle on the wire
PutUint16(h) == <<h % 256, h \div 256>>

\* 16-bit UUIDs as they are on the wire, and one 128-bit UUID
UuidBattery == <<15, 24>>
UuidA == <<0, 170>>
UuidB == <<0, 187>>
UuidLevel == <<25, 42>>
UuidUserDesc == <<1, 41>>
UuidLong == <<1, 2, 3, 4, 5, 6, 7, 8, 9, 10, 11, 12, 13, 14, 15, 16>>

\* ble.ClientCharacteristicConfigUUID, 0x2902
ClientCharacteristicConfigUUID == <<2, 41>>

\* a peer database: services [h, e, u], characteristic declarations
\* [h, p, vh, u] and descriptors [h, u], each in ascending handle order
Svc(h, e, u) == [h |-> h, e |-> e, u |-> u]
Chr(h, vh, u) == [h |-> h, p |-> 2, vh |-> vh, u |-> u]
Dsc(h, u) == [h |-> h, u |-> u]

\* one battery service 0x0010..0x0013 with a level characteristic and its CCCD
DbBattery ==
  [svcs |-> <<Svc(16, 19, UuidBattery)>>,
   chrs |-> <<Chr(17, 18, UuidLevel)>>,
   dscs |-> <<Dsc(19, ClientCharacteristicConfigUUID)>>]

\* three services, two of them with the same UUID; the last one ends at the
\* last handle with a descriptor on it
DbThree ==
  [svcs |-> <<Svc(1, 6, UuidA), Svc(7, 9, UuidA), Svc(10, MaxHandle, UuidB)>>,
   chrs |-> <<Chr(2, 3, UuidLevel), Chr(5, 6, UuidA), Chr(8, 9, UuidLevel),
              Chr(11, 12, UuidB), Chr(65533, 65534, UuidLevel)>>,
   dscs |-> <<Dsc(4, UuidUserDesc), Dsc(13, ClientCharacteristicConfigUUID),
              Dsc(14, UuidUserDesc), Dsc(15, UuidLong),
              Dsc(MaxHandle, ClientCharacteristicConfigUUID)>>]

\* one service whose last characteristic has its value on the last handle
DbEdge ==
  [svcs |-> <<Svc(1, MaxHandle, UuidB)>>,
   chrs |-> <<Chr(2, 3, UuidA), Chr(4, 5, UuidA), Chr(6, 7, UuidLevel),
              Chr(65534, MaxHandle, UuidLevel)>>,
   dscs |-> <<Dsc(8, UuidUserDesc), Dsc(9, UuidLong), Dsc(10, UuidLong)>>]

GattDBs == {DbBattery, DbThree, DbEdge}

\* the filters of the discovery calls: <<>> is nil
SvcFilters == {<<>>, <<UuidA>>, <<UuidB>>, <<UuidA, UuidB>>, <<UuidBattery, UuidA>>}
ChrFilters == {<<>>, <<UuidA>>}

\* ble.Contains
Contains(filter, u) == \E i \in 1..Len(filter) : filter[i] = u

\* the first n items of a sequence
Take(seq, n) == SubSeq(seq, 1, IF n < Len(seq) THEN n ELSE Len(seq))

\* attribute data of a ReadByGroupTypeResponse: handle, end handle, UUID
RECURSIVE EncodeSvcs(_)
EncodeSvcs(seq) ==
  IF seq = <<>> THEN <<>>
  ELSE PutUint16(Head(seq).h) \o PutUint16(Head(seq).e) \o Head(seq).u
         \o EncodeSvcs(Tail(seq))

\* attribute data of a ReadByTypeResponse for characteristic declarations:
\* handle, properties, value handle, UUID
RECURSIVE EncodeChrs(_)
EncodeChrs(seq) ==
  IF seq = <<>> THEN <<>>
  ELSE PutUint16(Head(seq).h) \o <<Head(seq).p>> \o PutUint16(Head(seq).vh)
         \o Head(seq).u \o EncodeChrs(Tail(seq))

\* information data of a FindInformationResponse: handle, UUID
RECURSIVE EncodeDscs(_)
EncodeDscs(seq) ==
  IF seq = <<>> THEN <<>>
  ELSE PutUint16(Head(seq).h) \o Head(seq).u \o EncodeDscs(Tail(seq))

\* ErrorResponse{reqOpcode, handle, code}
ErrorFrame(req, h, code) == <<ErrorResponseCode, req>> \o PutUint16(h) \o <<code>>

\* the items at the head of a sequence of descriptors whose UUIDs have the
\* length n
RECURSIVE LeadingRun(_, _)
LeadingRun(seq, n) ==
  IF seq = <<>> \/ Len(Head(seq).u) # n THEN <<>>
  ELSE <<Head(seq)>> \o LeadingRun(Tail(seq), n)

\* the items of a sequence with their handle in start..end
InRange(seq, start, end) ==
  SelectSeq(seq, LAMBDA x : x.h >= start /\ x.h <= end)

\* what a peer with the database db answers to ReadByGroupType(start, end,
\* PrimaryService): some of the next services, or an error
PeerSvcFrames(db, start, end) ==
  LET m == InRange(db.svcs, start, end) IN
  IF start = 0
    THEN {ErrorFrame(ReadByGroupTypeRequestCode, start, ErrInvalidHandle)}
  ELSE IF m = <<>>
    THEN {ErrorFrame(ReadByGroupTypeRequestCode, start, ErrAttrNotFound)}
  ELSE {<<ReadByGroupTypeResponseCode, 6>> \o EncodeSvcs(Take(m, k)) :
          k \in 1..MaxPerRsp}

\* ... to ReadByType(start, end, Characteristic)
PeerChrFrames(db, start, end) ==
  LET m == InRange(db.chrs, start, end) IN
  IF start = 0
    THEN {ErrorFrame(ReadByTypeRequestCode, start, ErrInvalidHandle)}
  ELSE IF m = <<>>
    THEN {ErrorFrame(ReadByTypeRequestCode, start, ErrAttrNotFound)}
  ELSE {<<ReadByTypeResponseCode, 7>> \o EncodeChrs(Take(m, k)) :
          k \in 1..MaxPerRsp}

\* ... to FindInformation(start, end): descriptors of one UUID length
PeerDscFrames(db, start, end) ==
  LET m == InRange(db.dscs, start, end) IN
  IF m = <<>>
    THEN {ErrorFrame(FindInformationRequestCode, start, ErrAttrNotFound)}
  ELSE LET n == Len(Head(m).u)
           run == LeadingRun(m, n)
       IN {<<FindInformationResponseCode, IF n = 2 THEN 1 ELSE 2>>
             \o EncodeDscs(Take(run, k)) : k \in 1..MaxPerRsp}

\* the service entries a peer that answers anything puts in its responses
AnyEntries == {Svc(1, 5, UuidA), Svc(6, MaxHandle, UuidB)}

\* ReadByGroupType responses that pass the validation of the ATT client,
\* whatever the request was
AnySvcFrames ==
  {ErrorFrame(ReadByGroupTypeRequestCode, 1, ErrAttrNotFound),
   <<ReadByGroupTypeResponseCode, 2, 1, 0>>}
  \cup {<<ReadByGroupTypeResponseCode, 6>> \o EncodeSvcs(<<x>>) : x \in AnyEntries}
  \cup {<<ReadByGroupTypeResponseCode, 6>> \o EncodeSvcs(<<x, y>>) :
          x \in AnyEntries, y \in AnyEntries}

\* a request operation of the ATT client as the GATT client sees it: the
\* argument check, then the validation of the frame sendReq returned
AttCall(o, start, end, frame) ==
  IF ~ArgValid(o, <<start, end>>, 0)
    THEN [kind |-> "InvalidArgument", val |-> 0, data |-> <<>>, sent |-> FALSE]
  ELSE LET r == ParseRsp(o, frame) IN
       [kind |-> r.kind, val |-> r.val, sent |-> TRUE,
        data |-> IF r.kind = "OK" THEN SubSeq(frame, 3, Len(frame)) ELSE <<>>]

\* DiscoverServices: for len(b) != 0 { ... } over the attribute data b
RECURSIVE SvcLoop(_, _, _, _, _)
SvcLoop(b, length, filter, svcs, start) ==
  IF b = <<>> THEN [svcs |-> svcs, start |-> start, ret |-> "more"]
  ELSE IF length < 4 \/ Len(b) < length
    THEN [svcs |-> svcs, start |-> start, ret |-> "fault"]
  ELSE LET h == Uint16(b[1], b[2])
           endh == Uint16(b[3], b[4])
           u == SubSeq(b, 5, length)
           svcs2 == IF filter = <<>> \/ Contains(filter, u)
                      THEN Append(svcs, Svc(h, endh, u)) ELSE svcs
       IN IF endh = MaxHandle
            THEN [svcs |-> svcs2, start |-> start, ret |-> "return"]
          ELSE IF Len(svcs2) = Len(filter)
            THEN [svcs |-> svcs2, start |-> start, ret |-> "return"]
          ELSE SvcLoop(SubSeq(b, length + 1, Len(b)), length, filter, svcs2,
                       Wrap16(endh + 1))

\* DiscoverCharacteristics: lastChar.EndHandle = c.Handle - 1
PrevHandleSame(h) == h

PrevHandle(h) == Wrap16(h - 1)

\* DiscoverCharacteristics: the same loop over characteristic declarations;
\* objs holds every Characteristic made, listed when it is in
\* s.Characteristics, and last is the place of lastChar in it (0: nil)
RECURSIVE ChrLoop(_, _, _, _, _, _, _)
ChrLoop(b, length, filter, objs, last, start, sEnd) ==
  IF b = <<>> THEN [objs |-> objs, last |-> last, start |-> start, ret |-> "more"]
  ELSE IF length < 5 \/ Len(b) < length
    THEN [objs |-> objs, last |-> last, start |-> start, ret |-> "fault"]
  ELSE LET h == Uint16(b[1], b[2])
           vh == Uint16(b[4], b[5])
           u == SubSeq(b, 6, length)
           c == [u |-> u, p |-> b[3], h |-> h, vh |-> vh, e |-> sEnd,
                 listed |-> filter = <<>> \/ Contains(filter, u)]
           objs2 == IF last # 0
                      THEN [objs EXCEPT ![last].e = PrevHandle(h)] ELSE objs
       IN ChrLoop(SubSeq(b, length + 1, Len(b)), length, filter,
                  Append(objs2, c), Len(objs2) + 1, Wrap16(vh + 1), sEnd)

\* DiscoverDescriptors: the same loop over the information data; cccd is
\* the handle of the descriptor c.CCCD points to (0: nil)
RECURSIVE DscLoop(_, _, _, _, _, _)
DscLoop(b, length, filter, dscs, cccd, start) ==
  IF b = <<>> THEN [dscs |-> dscs, cccd |-> cccd, start |-> start, ret |-> "more"]
  ELSE IF Len(b) < length
    THEN [dscs |-> dscs, cccd |-> cccd, start |-> start, ret |-> "fault"]
  ELSE LET h == Uint16(b[1], b[2])
           u == SubSeq(b, 3, length)
       IN DscLoop(SubSeq(b, length + 1, Len(b)), length, filter,
                  IF filter = <<>> \/ Contains(filter, u)
                    THEN Append(dscs, Dsc(h, u)) ELSE dscs,
                  IF u = ClientCharacteristicConfigUUID THEN h ELSE cccd,
                  Wrap16(h + 1))

\* the length of a record of information data for a format
DscRecordLenShort(fmt) == 2 + 2

DscRecordLen(fmt) == IF fmt = 2 THEN 2 + 16 ELSE 2 + 2

DscFilters == {<<>>, <<UuidUserDesc>>}

VARIABLES
  gdb,          \* the database of the peer
  gpc,          \* the discovery call in progress: idle, svc, chr, dsc
  gcall,        \* the discovery call made last: none, svc, chr, dsc
  gfilter,      \* its filter
  gstart,       \* its local start
  greqs,        \* the requests it has sent: <<opcode, start, end>>
  gret,         \* what it returned: none, ok, err
  services,     \* p.profile.Services
  gsvc,         \* the service s given to DiscoverCharacteristics (place in gdb)
  cobjs,        \* the Characteristic objects made for s
  lastChar,     \* the place of lastChar in cobjs, 0 for nil
  gchr,         \* the characteristic c given to DiscoverDescriptors
  descs,        \* c.Descriptors
  cccd,         \* the handle of c.CCCD, 0 for nil
  nGattCalls,   \* discovery calls made so far
  gpanicked     \* the goroutine of the call panicked

gattVars == <<gdb, gpc, gcall, gfilter, gstart, greqs, gret, services, gsvc,
              cobjs, lastChar, gchr, descs, cccd, nGattCalls, gpanicked>>

gcallVars == <<gpc, gcall, gfilter, gstart, greqs, gret, nGattCalls>>
gchrVars == <<gsvc, cobjs, lastChar>>
gdscVars == <<gchr, descs, cccd>>

\* gatt.NewClient against a peer with one of the databases dbs
GattInit(dbs) ==
  /\ gdb \in dbs
  /\ gpc = "idle"
  /\ gcall = "none"
  /\ gfilter = <<>>
  /\ gstart = 0
  /\ greqs = <<>>
  /\ gret = "none"
  /\ services = <<>>
  /\ gsvc = 0
  /\ cobjs = <<>>
  /\ lastChar = 0
  /\ gchr = 0
  /\ descs = <<>>
  /\ cccd = 0
  /\ nGattCalls = 0
  /\ gpanicked = FALSE

\* s.Characteristics
Listed(objs) == SelectSeq(objs, LAMBDA c : c.listed)

\* the service a characteristic declaration of db lies in
ServiceOf(db, c) == CHOOSE i \in 1..Len(db.svcs) :
                      db.svcs[i].h <= c.h /\ c.h <= db.svcs[i].e

\* the end of the j-th characteristic of db: the handle before the next
\* declaration of its service, or the end of the service
TrueEnd(db, j) ==
  IF j < Len(db.chrs) /\ ServiceOf(db, db.chrs[j + 1]) = ServiceOf(db, db.chrs[j])
    THEN db.chrs[j + 1].h - 1
    ELSE db.svcs[ServiceOf(db, db.chrs[j])].e

\* the entry of a call: start of a discovery call of the given kind
BeginCall(kind, filter, start) ==
  /\ ~gpanicked
  /\ gpc = "idle"
  /\ nGattCalls < MaxGattCalls
  /\ nGattCalls' = nGattCalls + 1
  /\ gpc' = kind
  /\ gcall' = kind
  /\ gfilter' = filter
  /\ gstart' = start
  /\ greqs' = <<>>
  /\ gret' = "none"
  /\ UNCHANGED <<gdb, gpanicked>>

\* the return of the call in progress
EndCall(r) ==
  /\ gpc' = "idle"
  /\ gret' = r
  /\ UNCHANGED <<gcall, gfilter, nGattCalls, gdb>>

\* the request of one pass of a discovery loop, recorded when it was sent
Sent(r, o, start, end) ==
  IF r.sent THEN Append(greqs, <<ReqCode(o), start, end>>) ELSE greqs

\* DiscoverServices(filter) up to its loop
DiscoverServices(filter) ==
  /\ BeginCall("svc", filter, 1)
  /\ UNCHANGED <<services, gchrVars, gdscVars>>

\* one pass of the loop of DiscoverServices: the request, the peer's answer
\* and the entries of the answer
SvcStep(honest) ==
  /\ ~gpanicked
  /\ gpc = "svc"
  /\ honest \/ Len(greqs) < MaxAnyReqs
  /\ \E f \in (IF honest THEN PeerSvcFrames(gdb, gstart, MaxHandle)
                         ELSE AnySvcFrames) :
       LET r == AttCall("ReadByGroupType", gstart, MaxHandle, f)
           x == SvcLoop(r.data, r.val, gfilter, services, gstart)
       IN /\ greqs' = Sent(r, "ReadByGroupType", gstart, MaxHandle)
          /\ IF r.kind = "ATTError" /\ r.val = ErrAttrNotFound
               THEN EndCall("ok") /\ UNCHANGED <<services, gstart, gpanicked>>
             ELSE IF r.kind = "Fault"
               THEN /\ gpanicked' = TRUE
                    /\ UNCHANGED <<services, gstart, gpc, gret, gcall,
                                   gfilter, nGattCalls, gdb>>
             ELSE IF r.kind # "OK"
               THEN EndCall("err") /\ UNCHANGED <<services, gstart, gpanicked>>
             ELSE /\ services' = x.svcs
                  /\ gstart' = x.start
                  /\ gpanicked' = (x.ret = "fault")
                  /\ IF x.ret = "return" THEN EndCall("ok")
                     ELSE UNCHANGED <<gpc, gret, gcall, gfilter, nGattCalls, gdb>>
  /\ UNCHANGED <<gchrVars, gdscVars>>

\* DiscoverCharacteristics(filter, s) for the i-th service of the peer
DiscoverCharacteristics(filter, i) ==
  /\ BeginCall("chr", filter, gdb.svcs[i].h)
  /\ gsvc' = i
  /\ cobjs' = IF i = gsvc THEN Listed(cobjs) ELSE <<>>
  /\ lastChar' = 0
  /\ UNCHANGED <<services, gdscVars>>

\* one pass of the loop of DiscoverCharacteristics
ChrStep ==
  /\ ~gpanicked
  /\ gpc = "chr"
  /\ LET sEnd == gdb.svcs[gsvc].e IN
     IF ~(gstart <= sEnd)
       THEN /\ EndCall("ok")
            /\ UNCHANGED <<greqs, gstart, cobjs, lastChar, gpanicked>>
       ELSE \E f \in PeerChrFrames(gdb, gstart, sEnd) :
         LET r == AttCall("ReadByType", gstart, sEnd, f)
             x == ChrLoop(r.data, r.val, gfilter, cobjs, lastChar, gstart, sEnd)
         IN /\ greqs' = Sent(r, "ReadByType", gstart, sEnd)
            /\ IF r.kind = "ATTError" /\ r.val = ErrAttrNotFound
                 THEN /\ EndCall("ok")
                      /\ UNCHANGED <<gstart, cobjs, lastChar, gpanicked>>
               ELSE IF r.kind = "Fault"
                 THEN /\ gpanicked' = TRUE
                      /\ UNCHANGED <<gstart, cobjs, lastChar, gpc, gret,
                                     gcall, gfilter, nGattCalls, gdb>>
               ELSE IF r.kind # "OK"
                 THEN /\ EndCall("err")
                      /\ UNCHANGED <<gstart, cobjs, lastChar, gpanicked>>
               ELSE /\ cobjs' = x.objs
                    /\ lastChar' = x.last
                    /\ gstart' = x.start
                    /\ gpanicked' = (x.ret = "fault")
                    /\ UNCHANGED <<gpc, gret, gcall, gfilter, nGattCalls, gdb>>
  /\ gsvc' = gsvc
  /\ UNCHANGED <<services, gdscVars>>

\* DiscoverDescriptors(filter, c) for the j-th characteristic of the peer,
\* discovered with its end handle
DiscoverDescriptors(filter, j) ==
  /\ BeginCall("dsc", filter, Wrap16(gdb.chrs[j].vh + 1))
  /\ gchr' = j
  /\ descs' = IF j = gchr THEN descs ELSE <<>>
  /\ cccd' = IF j = gchr THEN cccd ELSE 0
  /\ UNCHANGED <<services, gchrVars>>

\* one pass of the loop of DiscoverDescriptors
DscStep ==
  /\ ~gpanicked
  /\ gpc = "dsc"
  /\ LET cEnd == TrueEnd(gdb, gchr) IN
     IF ~(gstart <= cEnd)
       THEN /\ EndCall("ok")
            /\ UNCHANGED <<greqs, gstart, descs, cccd, gpanicked>>
       ELSE \E f \in PeerDscFrames(gdb, gstart, cEnd) :
         LET r == AttCall("FindInformation", gstart, cEnd, f)
             x == DscLoop(r.data, DscRecordLen(r.val), gfilter, descs, cccd, gstart)
         IN /\ greqs' = Sent(r, "FindInformation", gstart, cEnd)
            /\ IF r.kind = "ATTError" /\ r.val = ErrAttrNotFound
                 THEN /\ EndCall("ok")
                      /\ UNCHANGED <<gstart, descs, cccd, gpanicked>>
               ELSE IF r.kind # "OK"
                 THEN /\ EndCall("err")
                      /\ UNCHANGED <<gstart, descs, cccd, gpanicked>>
               ELSE /\ descs' = x.dscs
                    /\ cccd' = x.cccd
                    /\ gstart' = x.start
                    /\ gpanicked' = (x.ret = "fault")
                    /\ UNCHANGED <<gpc, gret, gcall, gfilter, nGattCalls, gdb>>
  /\ gchr' = gchr
  /\ UNCHANGED <<services, gchrVars>>

(***************************************************************************)
(* Subscriptions of the GATT client (gatt.Client.Subscribe, Unsubscribe,   *)
(* setHandlers, ClearSubscriptions, HandleNotification).  Every one of     *)
(* them runs under the lock of the client, so each is one step.            *)
(***************************************************************************)
\* calls of Subscribe, Unsubscribe and ClearSubscriptions in one behaviour
MaxSubCalls == 3
\* notifications and indications handed to HandleNotification
MaxSubNotifs == 3

cccNotify == 1
cccIndicate == 2

\* the characteristics of the peer the application holds: value handle and
\* the handle of c.CCCD, 0 for a characteristic without CCCD
SubChars == { [vh |-> 18, cccd |-> 19],
              [vh |-> 21, cccd |-> 22],
              [vh |-> 24, cccd |-> 0] }

ValueHandles == {c.vh : c \in SubChars}

\* ble.NotificationHandler values; "nil" is the nil func
Handlers == {"nil", "h1", "h2"}

\* the frames handed to HandleNotification: notification and indication of
\* the three value handles
SubFrames == { <<o>> \o PutUint16(vh) \o <<170, 187>> :
                 o \in {HandleValueNotificationCode, HandleValueIndicationCode},
                 vh \in ValueHandles }

\* att.HandleValueIndication(req).AttributeHandle()
AttributeHandle(req) == Uint16(req[2], req[3])

\* s.ccc & flag != 0, s.ccc | flag, s.ccc &^ flag for a flag of one bit
HasFlag(ccc, flag) == (ccc \div flag) % 2 = 1
SetFlag(ccc, flag) == IF HasFlag(ccc, flag) THEN ccc ELSE ccc + flag
ClearFlag(ccc, flag) == IF HasFlag(ccc, flag) THEN ccc - flag ELSE ccc

\* no entry of p.subs
NoSub == [on |-> FALSE, cccdh |-> 0, ccc |-> 0, nHandler |-> "nil",
          iHandler |-> "nil", id |-> 0]

\* &sub{cccdh: cccdh}
NewSub(cccdh) == [NoSub EXCEPT !.on = TRUE, !.cccdh = cccdh]

VARIABLES
  subs,         \* p.subs: per value handle the sub, NoSub without entry
  nWrites,      \* calls of p.ac.Write made by the subscription operations
  lastWrite,    \* the last of them: <<handle, value>>
  sret,         \* what the last operation returned: none, nil, err
  invoked,      \* per value handle: <<handler, id, opcode of the frame>> of
                \* each handler call since the entry of p.subs was made
  nSubCalls,    \* subscription operations called so far
  nSubNotifs    \* frames handed to HandleNotification so far

subVars == <<subs, nWrites, lastWrite, sret, invoked, nSubCalls, nSubNotifs>>

\* gatt.NewClient: subs: make(map[uint16]*sub)
SubInit ==
  /\ subs = [vh \in ValueHandles |-> NoSub]
  /\ nWrites = 0
  /\ lastWrite = <<>>
  /\ sret = "none"
  /\ invoked = [vh \in ValueHandles |-> <<>>]
  /\ nSubCalls = 0
  /\ nSubNotifs = 0

\* a setHandlers that takes every call as a change
NoChangeNever(s, flag, h) == FALSE

\* the first two cases of the switch of setHandlers: nothing to do
NoChange(s, flag, h) ==
  \/ h = "nil" /\ ~HasFlag(s.ccc, flag)
  \/ h # "nil" /\ HasFlag(s.ccc, flag)

\* the last two cases: the new s.ccc
NewCcc(s, flag, h) ==
  IF h = "nil" THEN ClearFlag(s.ccc, flag) ELSE SetFlag(s.ccc, flag)

\* setHandlers(cccdh, vh, flag, h); p.ac.Write succeeds or fails
setHandlers(cccdh, vh, flag, h) ==
  LET s == IF subs[vh].on THEN subs[vh] ELSE NewSub(cccdh) IN
  IF NoChange(s, flag, h)
    THEN /\ subs' = [subs EXCEPT ![vh] = s]
         /\ sret' = "nil"
         /\ UNCHANGED <<nWrites, lastWrite, invoked>>
    ELSE LET t == [s EXCEPT !.ccc = NewCcc(s, flag, h),
                            !.nHandler = IF flag = cccNotify THEN h ELSE @,
                            !.iHandler = IF flag = cccNotify THEN @ ELSE h]
         IN /\ nWrites' = nWrites + 1
            /\ lastWrite' = <<s.cccdh, PutUint16(t.ccc)>>
            /\ \E ok \in BOOLEAN :
                 IF ok
                   THEN /\ subs' = [subs EXCEPT ![vh] = t]
                        /\ sret' = "nil"
                        /\ UNCHANGED invoked
                   ELSE \* delete(p.subs, vh)
                        /\ subs' = [subs EXCEPT ![vh] = NoSub]
                        /\ invoked' = [invoked EXCEPT ![vh] = <<>>]
                        /\ sret' = "err"

\* the entry of a subscription operation
SubCall ==
  /\ nSubCalls < MaxSubCalls
  /\ nSubCalls' = nSubCalls + 1
  /\ UNCHANGED nSubNotifs

\* Subscribe(c, ind, h)
Subscribe(c, ind, h) ==
  /\ SubCall
  /\ IF c.cccd = 0
       THEN /\ sret' = "err"
            /\ UNCHANGED <<subs, nWrites, lastWrite, invoked>>
       ELSE setHandlers(c.cccd, c.vh,
                        IF ind THEN cccIndicate ELSE cccNotify, h)

\* Unsubscribe(c, ind)
Unsubscribe(c, ind) ==
  /\ SubCall
  /\ IF c.cccd = 0
       THEN /\ sret' = "err"
            /\ UNCHANGED <<subs, nWrites, lastWrite, invoked>>
       ELSE setHandlers(c.cccd, c.vh,
                        IF ind THEN cccIndicate ELSE cccNotify, "nil")

\* ClearSubscriptions: the entries are visited in the order of the map; the
\* entries of gone are visited and deleted, then the loop ends or the write
\* for the entry failed returns the error
ClearSubscriptions ==
  /\ SubCall
  /\ LET present == {vh \in ValueHandles : subs[vh].on} IN
     \E gone \in SUBSET present :
       \E failed \in (IF gone = present THEN {0} ELSE present \ gone) :
         /\ subs' = [vh \in ValueHandles |->
                       IF vh \in gone THEN NoSub ELSE subs[vh]]
         /\ invoked' = [vh \in ValueHandles |->
                          IF vh \in gone THEN <<>> ELSE invoked[vh]]
         /\ nWrites' = nWrites + Cardinality(gone)
                         + (IF failed = 0 THEN 0 ELSE 1)
         /\ lastWrite' = IF failed # 0
                           THEN <<subs[failed].cccdh, PutUint16(0)>>
                         ELSE IF gone = {} THEN lastWrite
                         ELSE <<subs[CHOOSE vh \in gone : TRUE].cccdh,
                                PutUint16(0)>>
         /\ sret' = IF failed = 0 THEN "nil" ELSE "err"

\* HandleNotification(req)
HandleNotification(req) ==
  /\ nSubNotifs < MaxSubNotifs
  /\ nSubNotifs' = nSubNotifs + 1
  /\ LET vh == AttributeHandle(req)
         sub == subs[vh]
         indication == req[1] = HandleValueIndicationCode
     IN IF ~sub.on
          THEN UNCHANGED <<subs, invoked>>
          ELSE /\ invoked' =
                    IF indication /\ sub.iHandler # "nil"
                      THEN [invoked EXCEPT
                              ![vh] = Append(@, <<sub.iHandler, sub.id,
                                             req[1]>>)]
                    ELSE IF sub.nHandler # "nil"
                      THEN [invoked EXCEPT
                              ![vh] = Append(@, <<sub.nHandler, sub.id,
                                             req[1]>>)]
                    ELSE invoked
               /\ subs' = [subs EXCEPT ![vh].id = @ + 1]
  /\ UNCHANGED <<nWrites, lastWrite, sret, nSubCalls>>

(***************************************************************************)
(* Long reads of the GATT client (gatt.Client.ReadLongCharacteristic over  *)
(* att.Client.Read and ReadBlob).  The peer holds the value and answers    *)
(* with what fits in the ATT_MTU of the connection.                        *)
(***************************************************************************)
Min(a, b) == IF a < b THEN a ELSE b

\* calls of ReadLongCharacteristic in one behaviour
MaxLongCalls == 2

ReadResponseCode == rspOfReq(ReadRequestCode)
ReadBlobResponseCode == rspOfReq(ReadBlobRequestCode)
ErrInvalidOffset == 7

\* the value handle of the characteristic that is read
LongHandle == 18

\* the lengths of the value the peer holds
LongLens == {0, 1, 21, 22, 23, 40, 44, 99, 338, 400, 512}

\* a value of n bytes, no two neighbours alike
ValueOf(n) == [i \in 1..n |-> (i * 7) % 251]

\* client and server receive MTUs of an earlier ExchangeMTU
LongClientMTUs == {339}
LongServerMTUs == {100, 515}

\* the MTUs of a connection: tx is p.conn.TxMTU(), att is the ATT_MTU the
\* peer fills its responses to.  Without exchange both are the default; an
\* ExchangeMTU leaves TxMTU as the operation sets it, and the ATT_MTU is the
\* smaller of the two receive MTUs.
LongMTUs ==
  {[tx |-> AttDefaultMTU, att |-> AttDefaultMTU]} \cup
  {[tx |-> NewTxMTU(c, v), att |-> Min(c, v)] :
     c \in LongClientMTUs, v \in LongServerMTUs}

\* the part of the value v from offset on that fits in one response
PeerPart(v, offset, att) ==
  SubSeq(v, offset + 1, Min(Len(v), offset + att - 1))

\* the answer of the peer to a ReadRequest
PeerReadFrame(v, att) == <<ReadResponseCode>> \o PeerPart(v, 0, att)

\* the answer of the peer to a ReadBlobRequest
PeerReadBlobFrame(v, offset, att) ==
  IF offset > Len(v)
    THEN ErrorFrame(ReadBlobRequestCode, LongHandle, ErrInvalidOffset)
    ELSE <<ReadBlobResponseCode>> \o PeerPart(v, offset, att)

\* Read and ReadBlob of the ATT client on the frame of the peer:
\* rsp.AttributeValue(), rsp.PartAttributeValue()
ReadCall(o, frame) ==
  LET r == ParseRsp(o, frame) IN
  [kind |-> r.kind,
   data |-> IF r.kind = "OK" THEN SubSeq(frame, 2, Len(frame)) ELSE <<>>]

\* the requests as written: ReadRequest and ReadBlobRequest
ReadRequest(h) == <<ReadRequestCode>> \o PutUint16(h)
ReadBlobRequest(h, offset) ==
  <<ReadBlobRequestCode>> \o PutUint16(h) \o PutUint16(offset)

\* a loop that goes on while anything was read
MoreToReadAny(read, mtu) == Len(read) > 0

\* for len(read) >= p.conn.TxMTU()-1
MoreToRead(read, mtu) == Len(read) >= mtu - 1

VARIABLES
  lmtu,         \* the MTUs of the connection
  lval,         \* the value the peer holds
  rpc,          \* ReadLongCharacteristic: idle, loop, done
  lbuf,         \* buffer
  lchunk,       \* read
  lreqs,        \* the requests written, in order
  rret,         \* what the call returned: none, ok, err
  nLongCalls    \* calls made so far

longVars == <<lmtu, lval, rpc, lbuf, lchunk, lreqs, rret, nLongCalls>>

LongInit(mtus) ==
  /\ lmtu \in mtus
  /\ lval = <<>>
  /\ rpc = "idle"
  /\ lbuf = <<>>
  /\ lchunk = <<>>
  /\ lreqs = <<>>
  /\ rret = "none"
  /\ nLongCalls = 0

\* ReadLongCharacteristic(c) on a value of n bytes, up to the loop: the Read
ReadLongCharacteristic(n) ==
  /\ rpc \in {"idle", "done"}
  /\ nLongCalls < MaxLongCalls
  /\ nLongCalls' = nLongCalls + 1
  /\ lval' = ValueOf(n)
  /\ lreqs' = <<ReadRequest(LongHandle)>>
  /\ LET r == ReadCall("Read", PeerReadFrame(ValueOf(n), lmtu.att)) IN
       IF r.kind # "OK"
         THEN /\ rpc' = "done"
              /\ rret' = "err"
              /\ lbuf' = <<>>
              /\ lchunk' = <<>>
         ELSE /\ rpc' = "loop"
              /\ rret' = "none"
              /\ lbuf' = r.data
              /\ lchunk' = r.data
  /\ UNCHANGED lmtu

\* one pass of the loop of ReadLongCharacteristic, or its return
ReadLongStep ==
  /\ rpc = "loop"
  /\ IF MoreToRead(lchunk, lmtu.tx)
       THEN LET offset == Wrap16(Len(lbuf))
                r == ReadCall("ReadBlob",
                              PeerReadBlobFrame(lval, offset, lmtu.att))
            IN /\ lreqs' = Append(lreqs, ReadBlobRequest(LongHandle, offset))
               /\ IF r.kind # "OK"
                    THEN /\ rpc' = "done"
                         /\ rret' = "err"
                         /\ UNCHANGED <<lbuf, lchunk>>
                    ELSE /\ lchunk' = r.data
                         /\ lbuf' = lbuf \o r.data
                         /\ UNCHANGED <<rpc, rret>>
       ELSE /\ rpc' = "done"
            /\ rret' = "ok"
            /\ UNCHANGED <<lbuf, lchunk, lreqs>>
  /\ UNCHANGED <<lmtu, lval, nLongCalls>>

(***************************************************************************)
(* The orchestrator loop of the device (linux.loop): every connection the  *)
(* controller accepts gets its context value ble.ContextKeyCCC and an ATT  *)
(* server.  The ATT server keeps the CCCD values of a connection in the    *)
(* map of its context.                                                     *)
(***************************************************************************)
\* connections the controller accepts in one behaviour
MaxConns == 2
\* CCCD writes of the peers in one behaviour
MaxCccWrites == 2

\* the CCCD handles of the database and the values a peer writes
CccHandles == {19, 22}
CccValues == {0, 1, 2}

\* make(map[uint16]uint16)
EmptyMap == <<>>

\* one map object for every connection
NewCccMapShared(heap) == 1

\* make(...): the place of the new map object among the objects made so far
NewCccMap(heap) == Len(heap) + 1

VARIABLES
  opc,          \* loop: accept, serve, returned
  ocur,         \* l2c: the connection accepted last
  octx,         \* per connection: the map object under ContextKeyCCC, 0 for none
  oheap,        \* the map objects
  oloop,        \* the connections whose ATT server loop runs
  nAccepted,    \* connections accepted so far
  nCccWrites    \* CCCD writes handled so far

orchVars == <<opc, ocur, octx, oheap, oloop, nAccepted, nCccWrites>>

Conns == 1..MaxConns

OrchInit ==
  /\ opc = "accept"
  /\ ocur = 0
  /\ octx = [c \in Conns |-> 0]
  /\ oheap = <<>>
  /\ oloop = {}
  /\ nAccepted = 0
  /\ nCccWrites = 0

\* the value the ATT server reads for the CCCD h on connection c
CccValue(c, h) ==
  IF octx[c] = 0 THEN 0
  ELSE IF h \in DOMAIN oheap[octx[c]] THEN oheap[octx[c]][h] ELSE 0

\* l2c, err := dev.Accept(): a connection, or an error or nil that ends loop
OrchAccept ==
  /\ opc = "accept"
  /\ \E ok \in BOOLEAN :
       IF ok
         THEN /\ nAccepted < MaxConns
              /\ nAccepted' = nAccepted + 1
              /\ ocur' = nAccepted + 1
              /\ opc' = "serve"
         ELSE /\ opc' = "returned"
              /\ UNCHANGED <<nAccepted, ocur>>
  /\ UNCHANGED <<octx, oheap, oloop, nCccWrites>>

\* SetContext with a new map, SetRxMTU, att.NewServer, go as.Loop(); when
\* NewServer fails the loop goes on without a server loop
OrchServe ==
  /\ opc = "serve"
  /\ LET m == NewCccMap(oheap) IN
       /\ oheap' = IF m > Len(oheap) THEN Append(oheap, EmptyMap) ELSE oheap
       /\ octx' = [octx EXCEPT ![ocur] = m]
  /\ \E err \in BOOLEAN :
       oloop' = IF err THEN oloop ELSE oloop \cup {ocur}
  /\ opc' = "accept"
  /\ UNCHANGED <<ocur, nAccepted, nCccWrites>>

\* the ATT server of connection c handles a write of v to the CCCD h
CccdWrite(c, h, v) ==
  /\ c \in oloop
  /\ nCccWrites < MaxCccWrites
  /\ nCccWrites' = nCccWrites + 1
  /\ oheap' = [oheap EXCEPT ![octx[c]] = (h :> v) @@ @]
  /\ UNCHANGED <<opc, ocur, octx, oloop, nAccepted>>

(***************************************************************************)
(* Advertising and scanning of the device (linux.Device.Advertise ...      *)
(* Scan): the start command, the wait for the context, the stop command.   *)
(***************************************************************************)
\* calls of the advertise and scan operations in one behaviour
MaxAdvCalls == 2

AdvOps == {"Advertise", "AdvertiseNameAndServices", "AdvertiseMfgData",
           "AdvertiseServiceData16", "AdvertiseIBeaconData",
           "AdvertiseIBeacon"}

DevOps == AdvOps \cup {"Scan"}

\* ctx.Err() of a context that is done
CtxErrs == {"Canceled", "DeadlineExceeded"}

VARIABLES
  dop,          \* the operation called last
  dpc,          \* idle, blocked (in <-ctx.Done()), done
  dctx,         \* ctx.Err(): nil, or the error of the finished context
  dcmds,        \* the calls into d.HCI made by the operation, in order
  dstarted,     \* the start command succeeded
  dret,         \* the error returned: none while running, nil, or its name
  nAdvCalls     \* operations called so far

devVars == <<dop, dpc, dctx, dcmds, dstarted, dret, nAdvCalls>>

DevInit ==
  /\ dop = "none"
  /\ dpc = "idle"
  /\ dctx = "nil"
  /\ dcmds = <<>>
  /\ dstarted = FALSE
  /\ dret = "none"
  /\ nAdvCalls = 0

\* the entry of an operation with a context in state c
DevCall(o, c) ==
  /\ dpc \in {"idle", "done"}
  /\ nAdvCalls < MaxAdvCalls
  /\ nAdvCalls' = nAdvCalls + 1
  /\ dop' = o
  /\ dctx' = c

\* Advertise, AdvertiseNameAndServices, ... AdvertiseIBeacon up to
\* <-ctx.Done(): the start command of d.HCI succeeds or fails
Advertise(o, c, startOK) ==
  /\ DevCall(o, c)
  /\ dcmds' = <<o>>
  /\ dstarted' = startOK
  /\ IF startOK
       THEN dpc' = "blocked" /\ dret' = "none"
       ELSE dpc' = "done" /\ dret' = "StartError"

\* Scan up to <-ctx.Done(): SetAdvHandler, then d.HCI.Scan
Scan(c, handlerOK, startOK) ==
  /\ DevCall("Scan", c)
  /\ IF ~handlerOK
       THEN /\ dcmds' = <<"SetAdvHandler">>
            /\ dstarted' = FALSE
            /\ dpc' = "done"
            /\ dret' = "HandlerError"
       ELSE /\ dcmds' = <<"SetAdvHandler", "Scan">>
            /\ dstarted' = startOK
            /\ IF startOK
                 THEN dpc' = "blocked" /\ dret' = "none"
                 ELSE dpc' = "done" /\ dret' = "StartError"

\* the context of the running operation is cancelled or runs out
CtxDone(e) ==
  /\ dpc = "blocked"
  /\ dctx = "nil"
  /\ dctx' = e
  /\ UNCHANGED <<dop, dpc, dcmds, dstarted, dret, nAdvCalls>>

\* an advertise operation after <-ctx.Done(): StopAdvertising, whose error
\* is dropped, and return ctx.Err()
AdvertiseResume ==
  /\ dpc = "blocked"
  /\ dop \in AdvOps
  /\ dctx # "nil"
  /\ dcmds' = Append(dcmds, "StopAdvertising")
  /\ dret' = dctx
  /\ dpc' = "done"
  /\ UNCHANGED <<dop, dctx, dstarted, nAdvCalls>>

\* Scan after <-ctx.Done(): StopScanning and its error, or ctx.Err()
ScanResume(stopOK) ==
  /\ dpc = "blocked"
  /\ dop = "Scan"
  /\ dctx # "nil"
  /\ dcmds' = Append(dcmds, "StopScanning")
  /\ dret' = IF stopOK THEN dctx ELSE "StopError"
  /\ dpc' = "done"
  /\ UNCHANGED <<dop, dctx, dstarted, nAdvCalls>>

(***************************************************************************)
(* The decoder of advertising data (package adv: decode, pduDecodeMap) and *)
(* the PDUs its tests build (testPdu.add, addBad).  A PDU is a sequence of *)
(* records {len, type, value[len-1]}.                                      *)
(***************************************************************************)
\* records in one PDU
MaxRecords == 2

\* the longest advertising PDU
AdvMaxLen == 31

\* pduDecodeMap: per AD type the width of a list element (0 for a type that
\* is no list), the least length of the payload, and the key of the entry
pduDecodeMap ==
  (1 :> [arrayElementSz |-> 0, minSz |-> 1, key |-> "flags"]) @@
  (3 :> [arrayElementSz |-> 2, minSz |-> 2, key |-> "uuid16"]) @@
  (5 :> [arrayElementSz |-> 4, minSz |-> 4, key |-> "uuid32"]) @@
  (7 :> [arrayElementSz |-> 16, minSz |-> 16, key |-> "uuid128"]) @@
  (255 :> [arrayElementSz |-> 0, minSz |-> 2, key |-> "mfgdata"])

AdTypes == DOMAIN pduDecodeMap

\* n bytes that count up from base
Bytes(n, base) == [i \in 1..n |-> (base + i - 1) % 256]

\* testPdu.add: the length byte covers the type and the payload
add(recTyp, recBytes) ==
  [typ |-> recTyp, lb |-> (Len(recBytes) + 1) % 256, b |-> recBytes]

\* testPdu.addBad: the length byte is given
addBad(recTyp, badRecLen, recBytes) ==
  [typ |-> recTyp, lb |-> badRecLen, b |-> recBytes]

\* the records the tests build for a type: payloads of every length around
\* the element width or the least length, and length bytes 32 too large and
\* 255
TestRecords(t) ==
  LET d == pduDecodeMap[t]
      w == d.arrayElementSz
      m == d.minSz
      lens == IF w > 0 THEN {0, w, w + 1, 2 * w, 2 * w + 1}
                       ELSE {0, m - 1, m, m + 1}
      badlens == IF w > 0 THEN {w, 2 * w} ELSE {0}
  IN {add(t, Bytes(n, 128)) : n \in lens} \cup
     {addBad(t, (n + 32) % 256, Bytes(n, 128)) : n \in badlens} \cup
     {addBad(t, 255, Bytes(n, 128)) : n \in badlens}

\* testPdu.bytes of a sequence of records
RECURSIVE PduBytes(_)
PduBytes(recs) ==
  IF recs = <<>> THEN <<>>
  ELSE <<Head(recs).lb, Head(recs).typ>> \o Head(recs).b
         \o PduBytes(Tail(recs))

\* the PDUs: up to MaxRecords records of different types in at most
\* AdvMaxLen bytes
TestPdus ==
  UNION {
    {r \in [1..n -> UNION {TestRecords(t) : t \in AdTypes}] :
       /\ \A i, j \in 1..n : i # j => r[i].typ # r[j].typ
       /\ Len(PduBytes(r)) <= AdvMaxLen} :
    n \in 1..MaxRecords}

\* the elements of a list payload, in order
Elements(payload, w) ==
  [k \in 1..(Len(payload) \div w) |->
     SubSeq(payload, (k - 1) * w + 1, k * w)]

\* a list check that takes every payload that is not empty
ListOKNonEmpty(payload, w) == Len(payload) > 0

\* the length of a list payload is a positive multiple of the width
ListOK(payload, w) == Len(payload) > 0 /\ Len(payload) % w = 0

\* decode from the byte at place p on; acc holds the entries made so far
RECURSIVE DecodeFrom(_, _, _)
DecodeFrom(pdu, p, acc) ==
  IF p > Len(pdu) THEN [err |-> FALSE, entries |-> acc]
  ELSE LET length == pdu[p] IN
    IF length < 1 \/ p + length > Len(pdu)
      THEN [err |-> TRUE, entries |-> <<>>]
    ELSE LET typ == pdu[p + 1]
             payload == SubSeq(pdu, p + 2, p + length)
             d == pduDecodeMap[typ]
         IN IF typ \notin AdTypes
              THEN DecodeFrom(pdu, p + length + 1, acc)
            ELSE IF Len(payload) < d.minSz
              THEN [err |-> TRUE, entries |-> <<>>]
            ELSE IF d.arrayElementSz > 0
              THEN IF ~ListOK(payload, d.arrayElementSz)
                     THEN [err |-> TRUE, entries |-> <<>>]
                     ELSE DecodeFrom(pdu, p + length + 1,
                            Append(acc, [key |-> d.key,
                              val |-> Elements(payload, d.arrayElementSz)]))
            ELSE DecodeFrom(pdu, p + length + 1,
                   Append(acc, [key |-> d.key, val |-> payload]))

\* decode(pdu)
decode(pdu) == DecodeFrom(pdu, 1, <<>>)

VARIABLES
  arecs,        \* the records of the PDU under test
  apc_adv,      \* built, decoded
  ares          \* what decode returned

advVars == <<arecs, apc_adv, ares>>

AdvInit(pdus) ==
  /\ arecs \in pdus
  /\ apc_adv = "built"
  /\ ares = [err |-> FALSE, entries |-> <<>>]

\* _, err := decode(p.bytes())
Decode ==
  /\ apc_adv = "built"
  /\ ares' = decode(PduBytes(arecs))
  /\ apc_adv' = "decoded"
  /\ UNCHANGED arecs

(***************************************************************************)
(* Specifications.  Each runs the same program in one environment: which   *)
(* goroutines are scheduled and which frames the peer sends.  A            *)
(* specification of one component leaves the state of the others as        *)
(* their constructors made it.                                             *)
(***************************************************************************)
vars == <<attVars, smpVars, gattVars, subVars, longVars, orchVars, devVars, advVars>>

notAttVars == <<smpVars, gattVars, subVars, longVars, orchVars, devVars, advVars>>

notSmpVars == <<attVars, gattVars, subVars, longVars, orchVars, devVars, advVars>>

notGattVars == <<attVars, smpVars, subVars, longVars, orchVars, devVars, advVars>>

notSubVars == <<attVars, smpVars, gattVars, longVars, orchVars, devVars, advVars>>

notLongVars == <<attVars, smpVars, gattVars, subVars, orchVars, devVars, advVars>>

notOrchVars == <<attVars, smpVars, gattVars, subVars, longVars, devVars, advVars>>

notDevVars == <<attVars, smpVars, gattVars, subVars, longVars, orchVars, advVars>>

notAdvVars == <<attVars, smpVars, gattVars, subVars, longVars, orchVars, devVars>>

\* the components but the GATT discovery, as their constructors made them
InitRest ==
  /\ SubInit
  /\ OrchInit
  /\ DevInit
  /\ AdvInit({<<add(1, <<6>>)>>})
  /\ LongInit({[tx |-> AttDefaultMTU, att |-> AttDefaultMTU]})

InitAll == Init /\ SmpInit /\ GattInit({DbBattery}) /\ InitRest

\* the parts of the receive loop every environment runs
LoopCore(frames, max) ==
  \/ LoopStart
  \/ LoopTop
  \/ LoopReadFrame(frames, max)
  \/ LoopPostRead

\* Spec: two callers issue request operations concurrently; the peer sends
\* response-class frames and requests; the transport may fail
Next ==
  \/ (\E c \in Callers : \E o \in ReqOps : \E a \in ArgsOf(o) : Call(c, o, a))
       /\ UNCHANGED notAttVars
  \/ (\E c \in Callers : Acquire(c)) /\ UNCHANGED notAttVars
  \/ (\E c \in Callers : RecvRsp(c)) /\ UNCHANGED notAttVars
  \/ (\E c \in Callers : RecvErr(c)) /\ UNCHANGED notAttVars
  \/ (\E c \in Callers : TimeoutFire(c)) /\ UNCHANGED notAttVars
  \/ Tick /\ UNCHANGED notAttVars
  \/ LoopStart /\ UNCHANGED notAttVars
  \/ LoopTop /\ UNCHANGED notAttVars
  \/ LoopReadFrame(RspFrames \cup ReqFrames, MaxFrames) /\ UNCHANGED notAttVars
  \/ LoopPostRead /\ UNCHANGED notAttVars
  \/ LoopReadErr /\ UNCHANGED notAttVars
  \/ LoopRouteReq /\ UNCHANGED notAttVars

Spec == InitAll /\ [][Next]_vars

\* SpecConn: one caller, the peer answers, the connection is lost or the
\* owner closes done at any moment
NextConn ==
  \/ (\E o \in ReqOps : \E a \in ArgsOf(o) : Call("c1", o, a))
       /\ UNCHANGED notAttVars
  \/ Acquire("c1") /\ UNCHANGED notAttVars
  \/ RecvRsp("c1") /\ UNCHANGED notAttVars
  \/ RecvErr("c1") /\ UNCHANGED notAttVars
  \/ TimeoutFire("c1") /\ UNCHANGED notAttVars
  \/ Tick /\ UNCHANGED notAttVars
  \/ LoopStart /\ UNCHANGED notAttVars
  \/ LoopTop /\ UNCHANGED notAttVars
  \/ LoopReadFrame(RspFrames, MaxFrames) /\ UNCHANGED notAttVars
  \/ LoopPostRead /\ UNCHANGED notAttVars
  \/ LoopReadErr /\ UNCHANGED notAttVars
  \/ LoopRouteClosed /\ UNCHANGED notAttVars
  \/ CloseDone /\ UNCHANGED notAttVars
  \/ Disconnect /\ UNCHANGED notAttVars
  \/ WatchDisconnected /\ UNCHANGED notAttVars

SpecConn == InitAll /\ [][NextConn]_vars

\* the notification path of the receive loop with the dispatcher
NotifPath ==
  \/ LoopStart /\ UNCHANGED notAttVars
  \/ LoopTop /\ UNCHANGED notAttVars
  \/ LoopPostRead /\ UNCHANGED notAttVars
  \/ LoopReadErr /\ UNCHANGED notAttVars
  \/ LoopRouteClosed /\ UNCHANGED notAttVars
  \/ LoopRouteNotif /\ UNCHANGED notAttVars
  \/ LoopConfirm /\ UNCHANGED notAttVars
  \/ DispatchStart /\ UNCHANGED notAttVars
  \/ DispatchEnd /\ UNCHANGED notAttVars
  \/ CloseDone /\ UNCHANGED notAttVars
  \/ Disconnect /\ UNCHANGED notAttVars
  \/ WatchDisconnected /\ UNCHANGED notAttVars

\* SpecNotif: the peer sends notifications and indications
NextNotif ==
  \/ LoopReadFrame(NotifFrames, MaxNotifs) /\ UNCHANGED notAttVars
  \/ NotifPath

SpecNotif == InitAll /\ [][NextNotif]_vars

\* SpecInd: the peer sends indications, more than the queue of Loop holds
NextInd ==
  \/ LoopReadFrame(IndFrames, MaxInds) /\ UNCHANGED notAttVars
  \/ NotifPath

SpecInd == InitAll /\ [][NextInd]_vars

\* SpecOps: one caller runs every operation with every argument against
\* every shape of response
NextOps ==
  \/ (\E o \in ReqOps : \E a \in OpsArgsOf(o) : Call("c1", o, a))
       /\ UNCHANGED notAttVars
  \/ Acquire("c1") /\ UNCHANGED notAttVars
  \/ RecvRsp("c1") /\ UNCHANGED notAttVars
  \/ LoopStart /\ UNCHANGED notAttVars
  \/ LoopTop /\ UNCHANGED notAttVars
  \/ LoopReadFrame(OpsFrames, MaxOpsFrames) /\ UNCHANGED notAttVars
  \/ LoopPostRead /\ UNCHANGED notAttVars

SpecOps == InitAll /\ [][NextOps]_vars

\* frames read in SpecRoute
MaxRouteFrames == 3

\* SpecRoute: the peer sends responses, requests, notifications and
\* indications in any order while one caller issues requests; the owner may
\* close done
NextRoute ==
  \/ (\E o \in ReqOps : \E a \in ArgsOf(o) : Call("c1", o, a))
       /\ UNCHANGED notAttVars
  \/ Acquire("c1") /\ UNCHANGED notAttVars
  \/ RecvRsp("c1") /\ UNCHANGED notAttVars
  \/ LoopStart /\ UNCHANGED notAttVars
  \/ LoopTop /\ UNCHANGED notAttVars
  \/ LoopReadFrame(RspFrames \cup ReqFrames \cup NotifFrames, MaxRouteFrames)
       /\ UNCHANGED notAttVars
  \/ LoopPostRead /\ UNCHANGED notAttVars
  \/ LoopRouteClosed /\ UNCHANGED notAttVars
  \/ LoopRouteReq /\ UNCHANGED notAttVars
  \/ LoopRouteNotif /\ UNCHANGED notAttVars
  \/ LoopConfirm /\ UNCHANGED notAttVars
  \/ CloseDone /\ UNCHANGED notAttVars

SpecRoute == InitAll /\ [][NextRoute]_vars

\* frames read in SpecBurst
MaxBurst == 28

\* the n-th frame of a peer that sends one request more than the inc channel
\* holds and then notifications and indications in turn
BurstFrame(n) ==
  IF n <= IncCap + 1
    THEN <<ExchangeMTURequestCode, AttDefaultMTU + n, 0>>
    ELSE <<IF n % 2 = 0 THEN HandleValueNotificationCode
                        ELSE HandleValueIndicationCode, 18, 0, n>>

\* SpecBurst: the peer sends more requests and more notifications than the
\* queues hold, every frame different; asyncReqLoop and the dispatcher take
\* frames from the queues at any pace; the owner may close done
NextBurst ==
  \/ LoopStart /\ UNCHANGED notAttVars
  \/ LoopTop /\ UNCHANGED notAttVars
  \/ LoopReadFrame({BurstFrame(nread + 1)}, MaxBurst) /\ UNCHANGED notAttVars
  \/ LoopPostRead /\ UNCHANGED notAttVars
  \/ LoopRouteClosed /\ UNCHANGED notAttVars
  \/ LoopRouteReq /\ UNCHANGED notAttVars
  \/ LoopRouteNotif /\ UNCHANGED notAttVars
  \/ LoopConfirm /\ UNCHANGED notAttVars
  \/ AsyncTop /\ UNCHANGED notAttVars
  \/ AsyncRecv /\ UNCHANGED notAttVars
  \/ AsyncSendResp /\ UNCHANGED notAttVars
  \/ DispatchStart /\ UNCHANGED notAttVars
  \/ DispatchEnd /\ UNCHANGED notAttVars
  \/ CloseDone /\ UNCHANGED notAttVars

SpecBurst == InitAll /\ [][NextBurst]_vars

\* the frames of the peer in SpecToken: responses, an ExchangeMTUResponse
\* with another MTU, and requests
TokenFrames == RspFrames \cup ReqFrames \cup { <<3, 100, 0>> }

\* SpecToken: a caller issues request operations, valid and invalid, that
\* succeed, fail and time out, while asyncReqLoop answers the requests of
\* the peer with sendResp
NextToken ==
  \/ (\E o \in ReqOps : \E a \in ArgsOf(o) : Call("c1", o, a))
       /\ UNCHANGED notAttVars
  \/ Acquire("c1") /\ UNCHANGED notAttVars
  \/ RecvRsp("c1") /\ UNCHANGED notAttVars
  \/ RecvErr("c1") /\ UNCHANGED notAttVars
  \/ TimeoutFire("c1") /\ UNCHANGED notAttVars
  \/ Tick /\ UNCHANGED notAttVars
  \/ LoopStart /\ UNCHANGED notAttVars
  \/ LoopTop /\ UNCHANGED notAttVars
  \/ LoopReadFrame(TokenFrames, MaxFrames) /\ UNCHANGED notAttVars
  \/ LoopPostRead /\ UNCHANGED notAttVars
  \/ LoopReadErr /\ UNCHANGED notAttVars
  \/ LoopRouteReq /\ UNCHANGED notAttVars
  \/ AsyncTop /\ UNCHANGED notAttVars
  \/ AsyncRecv /\ UNCHANGED notAttVars
  \/ AsyncSendResp /\ UNCHANGED notAttVars

SpecToken == InitAll /\ [][NextToken]_vars

\* SpecSmp: Pair is called with every timeout while the peer's SMP frames,
\* handled and unhandled, reach Handle
NextSmp ==
  \/ (\E a \in AuthDatas : \E to \in PairTimeouts : Pair(a, to))
       /\ UNCHANGED notSmpVars
  \/ StartPairing /\ UNCHANGED notSmpVars
  \/ WaitResultClosed /\ UNCHANGED notSmpVars
  \/ HandleSendResult /\ UNCHANGED notSmpVars
  \/ PairTimeout /\ UNCHANGED notSmpVars
  \/ SmpTick /\ UNCHANGED notSmpVars
  \/ (\E code \in SmpCodes : Handle(code)) /\ UNCHANGED notSmpVars

SpecSmp == InitAll /\ [][NextSmp]_vars

\* SpecDisc: discovery calls, one after the other, against a peer that
\* answers from its database as an ATT server does
InitDisc == Init /\ SmpInit /\ GattInit(GattDBs) /\ InitRest

NextDisc ==
  \/ (\E f \in SvcFilters : DiscoverServices(f)) /\ UNCHANGED notGattVars
  \/ SvcStep(TRUE) /\ UNCHANGED notGattVars
  \/ (\E f \in ChrFilters : \E i \in 1..Len(gdb.svcs) :
        DiscoverCharacteristics(f, i)) /\ UNCHANGED notGattVars
  \/ ChrStep /\ UNCHANGED notGattVars
  \/ (\E f \in DscFilters : \E j \in 1..Len(gdb.chrs) :
        DiscoverDescriptors(f, j)) /\ UNCHANGED notGattVars
  \/ DscStep /\ UNCHANGED notGattVars

SpecDisc == InitDisc /\ [][NextDisc]_vars

\* SpecDiscAny: DiscoverServices against a peer whose responses pass the
\* validation of the ATT client and are otherwise arbitrary
NextDiscAny ==
  \/ (\E f \in SvcFilters : DiscoverServices(f)) /\ UNCHANGED notGattVars
  \/ SvcStep(FALSE) /\ UNCHANGED notGattVars

SpecDiscAny == InitAll /\ [][NextDiscAny]_vars

\* SpecSub: the application subscribes and unsubscribes while notifications
\* and indications of the peer are dispatched
NextSub ==
  \/ (\E c \in SubChars : \E ind \in BOOLEAN : \E h \in Handlers :
        Subscribe(c, ind, h)) /\ UNCHANGED notSubVars
  \/ (\E c \in SubChars : \E ind \in BOOLEAN : Unsubscribe(c, ind))
       /\ UNCHANGED notSubVars
  \/ ClearSubscriptions /\ UNCHANGED notSubVars
  \/ (\E f \in SubFrames : HandleNotification(f)) /\ UNCHANGED notSubVars

SpecSub == InitAll /\ [][NextSub]_vars

\* SpecLong: long reads of values of every length on connections with and
\* without an earlier MTU exchange
InitLong ==
  /\ Init /\ SmpInit /\ GattInit({DbBattery}) /\ SubInit /\ OrchInit /\ DevInit
  /\ AdvInit({<<add(1, <<6>>)>>})
  /\ LongInit(LongMTUs)

NextLong ==
  \/ (\E n \in LongLens : ReadLongCharacteristic(n)) /\ UNCHANGED notLongVars
  \/ ReadLongStep /\ UNCHANGED notLongVars

SpecLong == InitLong /\ [][NextLong]_vars

\* SpecOrch: the controller accepts connections and the peers write CCCDs
NextOrch ==
  \/ OrchAccept /\ UNCHANGED notOrchVars
  \/ OrchServe /\ UNCHANGED notOrchVars
  \/ (\E c \in Conns : \E h \in CccHandles : \E v \in CccValues :
        CccdWrite(c, h, v)) /\ UNCHANGED notOrchVars

SpecOrch == InitAll /\ [][NextOrch]_vars

\* SpecDev: the application advertises and scans with contexts that are
\* cancelled, run out, or are done before the call
NextDev ==
  \/ (\E o \in AdvOps : \E c \in {"nil"} \cup CtxErrs : \E ok \in BOOLEAN :
        Advertise(o, c, ok)) /\ UNCHANGED notDevVars
  \/ (\E c \in {"nil"} \cup CtxErrs : \E hok \in BOOLEAN : \E ok \in BOOLEAN :
        Scan(c, hok, ok)) /\ UNCHANGED notDevVars
  \/ (\E e \in CtxErrs : CtxDone(e)) /\ UNCHANGED notDevVars
  \/ AdvertiseResume /\ UNCHANGED notDevVars
  \/ (\E ok \in BOOLEAN : ScanResume(ok)) /\ UNCHANGED notDevVars

SpecDev == InitAll /\ [][NextDev]_vars

\* SpecAdv: decode is applied to every PDU of the tests
InitAdv ==
  /\ Init /\ SmpInit /\ GattInit({DbBattery}) /\ SubInit /\ OrchInit /\ DevInit
  /\ LongInit({[tx |-> AttDefaultMTU, att |-> AttDefaultMTU]})
  /\ AdvInit(TestPdus)

NextAdv ==
  \/ Decode /\ UNCHANGED notAdvVars

SpecAdv == InitAdv /\ [][NextAdv]_vars

(***************************************************************************)
(* Properties.                                                             *)
(***************************************************************************)
Waiting == {c \in Callers : pc[c] = "wait"}

\* C1: on one bearer at most one request has been written and still awaits
\* its response, in every interleaving of the concurrent callers.
C1_AtMostOneOutstanding == Cardinality(Waiting) <= 1

\* a request is outstanding while a second caller stands at the token channel
C1_Witness ==
  \E c, d \in Callers : pc[c] = "wait" /\ pc[d] = "acquire" /\ chTxBuf = <<>>

\* C2: a call that wrote a request with opcode R returns either an error and
\* no frame, or a frame whose opcode is ErrorResponse or rspOf(R); never a
\* frame of another opcode.
C2_ResponsePaired ==
  [][\A c \in Callers :
       (pc[c] = "wait" /\ pc'[c] = "done") =>
         \/ /\ result'[c].kind \in {"SeqProtoTimeout", "BearerError",
                                   "Disconnected", "WriteFailed"}
            /\ result'[c].frameOp = 0
         \/ /\ result'[c].kind \in {"OK", "ATTError", "InvalidResponse", "Fault"}
            /\ result'[c].frameOp \in {ErrorResponseCode,
                                      rspOfReq(ReqCode(op[c]))}]_vars

\* a call returned the response of its request after a frame of another
\* opcode had reached it
C2_Witness ==
  \E c \in Callers :
    /\ pc[c] = "done"
    /\ result[c].kind = "OK"
    /\ result[c].frameOp = RspCode("Read")
    /\ nread = 2

\* C3: a request that gets neither its response nor an ErrorResponse returns
\* SeqProtoTimeout 2 s after it was sent, whatever frames arrive meanwhile: no
\* request is still waiting later than that.
C3_TimeoutTwoSecondsAfterSend ==
  \A c \in Callers : pc[c] = "wait" => elapsed[c] <= Timeout

\* C4: every indication Loop takes while the connection is open is confirmed
\* before Loop reads a further frame, with or without room in the queue; a
\* loop that returned with an indication unconfirmed was told to stop.
C4_IndicationConfirmed ==
  ~disconnected =>
    /\ lpc \in {"top", "read", "postread"} => nConf = nInd
    /\ lpc \in {"route", "confirm"} => nConf = nInd - 1
    /\ lpc = "exited" => (nConf = nInd \/ (done /\ nConf = nInd - 1))

\* seventeen indications were confirmed although the queue took sixteen
C4_Witness ==
  /\ nInd = NotifCap + 1
  /\ nConf = nInd
  /\ Len(ch) = NotifCap
  /\ handling = 0
  /\ delivered = <<>>
  /\ lpc = "top"

\* C5: the handler invocations follow the order in which the frames were
\* read: a handler starts only when the handlers of all delivered frames
\* read earlier have returned, and no frame read earlier is still queued.
C5_DeliveredInOrder ==
  /\ \A i, j \in 1..Len(delivered) : i < j => delivered[i] < delivered[j]
  /\ \A i \in 1..Len(delivered) : \A k \in 1..Len(ch) : delivered[i] < ch[k].id
  /\ handling # 0 =>
       /\ \A i \in 1..Len(delivered) : delivered[i] < handling
       /\ \A k \in 1..Len(ch) : handling < ch[k].id

\* three frames were delivered, a notification after an indication among them
C5_Witness ==
  /\ Len(delivered) = 3
  /\ handling = 0
  /\ lpc = "read"

\* C6: after a successful ExchangeMTU the TxMTU of the connection and the
\* length of the buffer in the token channel equal min(clientRxMTU,
\* serverRxMTU).
C6_TxMTUIsMin ==
  \A c \in Callers :
    (pc[c] = "done" /\ result[c].kind = "OK"
       /\ result[c].frameOp = RspCode("ExchangeMTU")) =>
      /\ txMTU = Min(rxMTU, result[c].val)
      /\ chTxBuf = <<Min(rxMTU, result[c].val)>>

\* C7: ExchangeMTU rejects a client MTU only outside 23..515.
C7_ExchangeMTUAcceptsRange ==
  \A c \in Callers :
    (pc[c] = "done" /\ op[c] = "ExchangeMTU"
       /\ result[c].kind = "InvalidArgument") =>
      (arg[c][1] < AttDefaultMTU \/ arg[c][1] > MaxMTU)

\* C8: TxMTU and the length of the transmit buffer stay within 23..515.
C8_MTUWithinRange ==
  /\ txMTU \in AttDefaultMTU..MaxMTU
  /\ \A i \in 1..Len(chTxBuf) : chTxBuf[i] \in AttDefaultMTU..MaxMTU
  /\ \A c \in Callers :
       \A i \in 1..Len(held[c]) : held[c][i] \in AttDefaultMTU..MaxMTU

\* C9: the validation of a frame accepted as the response ends in ATTError,
\* InvalidResponse or the response data; it never faults.
C9_ResponseNeverFaults ==
  \A c \in Callers :
    result[c].frameOp # 0 =>
      result[c].kind \in {"ATTError", "InvalidResponse", "OK"}

\* C10: a request that was waiting for its response, its timer not yet due,
\* when the connection disconnected under a running receive loop of an open
\* client does not end with SeqProtoTimeout.
C10_DisconnectedNotTimeout ==
  \A c \in Callers :
    (pc[c] = "done" /\ discSeen[c] /\ lpc = "exited" /\ ~done) =>
      result[c].kind # "SeqProtoTimeout"


\* C11: a Pair call that finds the pairing state other than Init returns the
\* error at once, sends no PairingRequest and leaves the pairing state and
\* the pairing context as they were.
C11_PairOnlyInInit ==
  [][(ppc \in {"idle", "done"} /\ Len(prets') + (IF ppc' = "start" THEN 1 ELSE 0)
        > Len(prets) /\ pstate # "Init") =>
       /\ ppc' = "done"
       /\ prets' = Append(prets, "InProgress")
       /\ sentReq' = sentReq
       /\ pstate' = pstate
       /\ authData' = authData]_vars

\* a Pair call was refused after an earlier one had timed out
C11_Witness ==
  /\ prets = <<"Timeout", "InProgress">>
  /\ pstate = "WaitPairingResponse"
  /\ sentReq = 1

\* C12: Handle is never left blocked for good in the send of a handler's
\* error: with the pairing state Error and no Pair call in progress there is
\* no receiver for it, now or later.
C12_HandleReturns ==
  ~(hpc = "send" /\ pstate = "Error" /\ ppc \in {"idle", "done"})

\* C13: close(m.result) is executed at most once; when Handle has returned
\* with the pairing Finished the channel is closed; and a Pair call that
\* takes its result from the closed channel returns nil.
C13_ResultClosedOnce ==
  [][/\ nClose' <= 1
     /\ resultClosed' <=> nClose' = 1
     /\ (pstate' = "Finished" /\ hpc' = "idle" /\ ~smpPanicked') => resultClosed'
     /\ (ppc = "wait" /\ ppc' = "done" /\ resultClosed /\ ptimer < pto) =>
          prets' = Append(prets, "nil")]_vars

\* Pair returned nil and a further frame was handled in state Finished
C13_Witness ==
  /\ pstate = "Finished"
  /\ nClose = 1
  /\ prets = <<"nil">>
  /\ nInFinished >= 1
  /\ hcode \in HandledCodes
  /\ ~smpPanicked

\* C14: after Pair returned the timeout error the pairing state is Error.
C14_TimeoutSetsError ==
  (ppc = "done" /\ Len(prets) > 0 /\ prets[Len(prets)] = "Timeout") =>
    pstate = "Error"

\* C15: Handle of a frame whose code has no handler sends one PairingFailed
\* with reason PairingNotSupported and changes neither the pairing state nor
\* the result channel.
C15_UnhandledCode ==
  [][(nHandled' = nHandled + 1 /\ hcode' \notin HandledCodes) =>
       /\ sentFailed' = Append(sentFailed, 5)
       /\ pstate' = pstate
       /\ resultClosed' = resultClosed
       /\ nClose' = nClose
       /\ hpc' = "idle"
       /\ prets' = prets]_vars

\* an unhandled code was answered in the middle of a pairing
C15_Witness ==
  /\ sentFailed = <<5>>
  /\ hcode = 14
  /\ pstate = "WaitConfirm"
  /\ ppc = "wait"


\* C16: the start handles of the successive ReadByGroupType requests of one
\* DiscoverServices call are strictly increasing, whatever validated
\* responses the peer sends.
C16_StartsIncrease ==
  gcall = "svc" =>
    \A i, j \in 1..Len(greqs) : i < j => greqs[i][2] < greqs[j][2]

\* C17: a DiscoverServices(nil) that returned without error left in the
\* profile exactly the primary services of the peer, in handle order.
C17_AllServicesOnce ==
  (gpc = "idle" /\ gcall = "svc" /\ gfilter = <<>> /\ gret = "ok") =>
    services = gdb.svcs

\* C18: the first DiscoverServices(filter) of a client with a non-empty
\* filter returns exactly the peer's primary services whose UUID is in the
\* filter.
C18_FilteredServices ==
  (gpc = "idle" /\ gcall = "svc" /\ gfilter # <<>> /\ gret = "ok"
     /\ nGattCalls = 1) =>
    services = SelectSeq(gdb.svcs, LAMBDA x : Contains(gfilter, x.u))

\* C19: after DiscoverCharacteristics every characteristic it made, in the
\* list of the service or filtered out, is a declaration of the peer with the
\* end handle of that declaration: the handle before the next declaration of
\* the service, or the end of the service.
C19_CharacteristicEnds ==
  (gpc = "idle" /\ gcall = "chr") =>
    \A k \in 1..Len(cobjs) :
      \E j \in 1..Len(gdb.chrs) :
        /\ gdb.chrs[j].h = cobjs[k].h
        /\ gdb.chrs[j].vh = cobjs[k].vh
        /\ ServiceOf(gdb, gdb.chrs[j]) = gsvc
        /\ cobjs[k].e = TrueEnd(gdb, j)

\* the two characteristics of a service that ends at the last handle came in
\* two responses
C19_Witness ==
  /\ gpc = "idle" /\ gcall = "chr" /\ gret = "ok"
  /\ gdb = DbThree /\ gsvc = 3
  /\ Len(cobjs) = 2
  /\ cobjs[1].e = 65532
  /\ cobjs[2].e = MaxHandle
  /\ Len(greqs) = 3

\* C20: after DiscoverDescriptors(c) every request sent was a
\* FindInformation for a range from within valueHandle+1 .. endHandle up to
\* endHandle, the first from valueHandle+1, none when the range is empty; the
\* descriptors added without filter are those of the peer in that range, in
\* 4-byte and 18-byte records; and the CCCD pointer is set exactly when a
\* descriptor 0x2902 lies in the range.
C20_DescriptorRange ==
  (gpc = "idle" /\ gcall = "dsc") =>
    LET c == gdb.chrs[gchr]
        cEnd == TrueEnd(gdb, gchr)
        want == InRange(gdb.dscs, c.vh + 1, cEnd)
    IN /\ \A i \in 1..Len(greqs) :
            /\ greqs[i][1] = FindInformationRequestCode
            /\ greqs[i][2] >= c.vh + 1
            /\ greqs[i][2] <= cEnd
            /\ greqs[i][3] = cEnd
       /\ greqs # <<>> => greqs[1][2] = c.vh + 1
       /\ c.vh + 1 > cEnd => greqs = <<>>
       /\ gfilter = <<>> =>
            /\ Len(descs) >= Len(want)
            /\ SubSeq(descs, Len(descs) - Len(want) + 1, Len(descs)) = want
       /\ cccd # 0 <=>
            \E i \in 1..Len(want) : want[i].u = ClientCharacteristicConfigUUID
       /\ cccd # 0 =>
            \E i \in 1..Len(want) :
              want[i].h = cccd /\ want[i].u = ClientCharacteristicConfigUUID

\* descriptors of both formats were read and the CCCD among them was found
C20_Witness ==
  /\ gpc = "idle" /\ gcall = "dsc" /\ gret = "ok"
  /\ gdb = DbThree /\ gchr = 4
  /\ gfilter = <<>>
  /\ Len(descs) = 3
  /\ descs[3].u = UuidLong
  /\ cccd = 13


\* C21: a step of Subscribe or Unsubscribe calls the write of the CCCD only
\* when it sets or clears a subscription bit of the value handle, the value
\* written is the bit set after the change (1 notify, 2 indicate, 3 both, 0
\* none) at the CCCD handle of the characteristic, and a step that changes
\* no bit writes nothing and keeps both registered handlers.
C21_WriteOnlyOnChange ==
  [][\A c \in SubChars : \A ind \in BOOLEAN : \A h \in Handlers :
       ((Subscribe(c, ind, h) \/ (h = "nil" /\ Unsubscribe(c, ind)))
          /\ c.cccd # 0) =>
         LET flag == IF ind THEN 2 ELSE 1
             old == IF subs[c.vh].on THEN subs[c.vh].ccc ELSE 0
             bit == (old \div flag) % 2
             new == IF h = "nil" THEN old - bit * flag
                                 ELSE old + (1 - bit) * flag
             wrote == nWrites' # nWrites
         IN /\ wrote => new # old
            /\ wrote => /\ nWrites' = nWrites + 1
                        /\ lastWrite' = <<c.cccd, <<new, 0>>>>
            /\ new = old =>
                 /\ ~wrote
                 /\ subs'[c.vh].nHandler = subs[c.vh].nHandler
                 /\ subs'[c.vh].iHandler = subs[c.vh].iHandler
                 /\ subs'[c.vh].ccc = old
            /\ (wrote /\ sret' = "nil") => subs'[c.vh].ccc = new
    ]_vars

\* notify and indicate are both subscribed: the second Subscribe wrote 3
C21_Witness ==
  /\ subs[18].on /\ subs[18].ccc = 3
  /\ subs[18].nHandler = "h1" /\ subs[18].iHandler = "h2"
  /\ nWrites = 2
  /\ nSubCalls = 3
  /\ lastWrite = <<19, <<3, 0>>>>

\* C22: the ids passed to the handlers of a value handle since its
\* subscription slot was made are 0, 1, 2, ... in this order.
C22_IdsFromZero ==
  \A vh \in ValueHandles :
    \A i \in 1..Len(invoked[vh]) : invoked[vh][i][2] = i - 1


\* C23: a ReadLongCharacteristic that has returned has returned the value of
\* the peer byte for byte, for every length of the value.
C23_LongReadReturnsValue ==
  rpc = "done" => (rret = "ok" /\ lbuf = lval)

\* C24: with TxMTU = 23 and a value of 40 bytes ReadLongCharacteristic has
\* written Read and ReadBlob(offset=22), nothing more, and returned the 40
\* bytes: the chunk of 18 bytes at offset 22 is shorter than TxMTU-1 and ends
\* the loop.
C24_TwoRequests ==
  (rpc = "done" /\ lmtu.tx = 23 /\ lmtu.att = 23 /\ Len(lval) = 40) =>
    /\ lreqs = << <<10, 18, 0>>, <<12, 18, 0, 22, 0>> >>
    /\ rret = "ok"
    /\ lbuf = lval

\* the 40 bytes were read in a chunk of 22 and a chunk of 18
C24_Witness ==
  /\ rpc = "done" /\ rret = "ok"
  /\ lmtu.tx = 23 /\ lmtu.att = 23
  /\ Len(lval) = 40 /\ lbuf = lval
  /\ Len(lchunk) = 18

\* C24 as the spec states it: Read, ReadBlob(offset=22) and ReadBlob(offset=40)
\* are written.
C24_ThreeRequests ==
  (rpc = "done" /\ lmtu.tx = 23 /\ lmtu.att = 23 /\ Len(lval) = 40) =>
    /\ lreqs = << <<10, 18, 0>>, <<12, 18, 0, 22, 0>>, <<12, 18, 0, 40, 0>> >>
    /\ lbuf = lval


\* C25: a connection whose ATT server loop starts has a CCCD map of its own,
\* empty and shared with no connection accepted before; and a CCCD write on
\* a connection is what that connection reads back afterwards while every
\* other connection reads for every handle what it read before.
C25_CccdPerConnection ==
  [][/\ \A c \in oloop' \ oloop :
          /\ octx'[c] # 0
          /\ oheap'[octx'[c]] = <<>>
          /\ \A d \in Conns \ {c} : octx'[d] # octx'[c]
     /\ \A c \in Conns : \A h \in CccHandles : \A v \in CccValues :
          CccdWrite(c, h, v) =>
            /\ CccValue(c, h)' = v
            /\ \A d \in Conns \ {c} : \A g \in CccHandles :
                 CccValue(d, g)' = CccValue(d, g)
    ]_vars

\* two connections are served and hold different values for one CCCD
C25_Witness ==
  /\ oloop = {1, 2}
  /\ CccValue(1, 19) = 1
  /\ CccValue(2, 19) = 2


\* C26: an advertise or scan operation whose start command succeeded has,
\* when it returns, seen its context done, called its own stop command once
\* and no other, and returned the error of the context; one whose start
\* command or SetAdvHandler failed has returned that error and called no
\* stop command.
C26_StopOnceReturnCtxErr ==
  LET stops == SelectSeq(dcmds, LAMBDA x :
                 x \in {"StopAdvertising", "StopScanning"})
  IN /\ dpc = "blocked" => stops = <<>>
     /\ dpc = "done" =>
          IF dstarted
            THEN /\ dctx # "nil"
                 /\ stops = <<IF dop = "Scan" THEN "StopScanning"
                                             ELSE "StopAdvertising">>
                 /\ dret = dctx
            ELSE /\ stops = <<>>
                 /\ dret \in {"StartError", "HandlerError"}


\* C27: decode fails on a PDU with a record that has an empty payload, a
\* list payload whose length is no positive multiple of the element width,
\* a payload of another type shorter than the least length of the type, or
\* a length byte that runs past the end of the PDU; and on a PDU of
\* well-formed records it returns one entry per record, in order, with the
\* bytes of the payload unchanged and the list elements in order.
C27_DecodeRejectsMalformed ==
  apc_adv = "decoded" =>
    LET n == Len(arecs)
        total == Len(PduBytes(arecs))
        \* the place of the length byte of record k
        at(k) == Len(PduBytes(SubSeq(arecs, 1, k - 1))) + 1
        w(k) == pduDecodeMap[arecs[k].typ].arrayElementSz
        bad(k) ==
          \/ arecs[k].b = <<>>
          \/ w(k) > 0 /\ Len(arecs[k].b) % w(k) # 0
          \/ w(k) = 0 /\ Len(arecs[k].b) < pduDecodeMap[arecs[k].typ].minSz
          \/ at(k) + arecs[k].lb > total
    IN IF \E k \in 1..n : bad(k)
         THEN ares.err
         ELSE /\ ~ares.err
              /\ Len(ares.entries) = n
              /\ \A k \in 1..n :
                   /\ ares.entries[k].key = pduDecodeMap[arecs[k].typ].key
                   /\ IF w(k) = 0
                        THEN ares.entries[k].val = arecs[k].b
                        ELSE /\ Len(ares.entries[k].val) * w(k)
                                  = Len(arecs[k].b)
                             /\ \A e \in 1..Len(ares.entries[k].val) :
                                  \A i \in 1..w(k) :
                                    ares.entries[k].val[e][i]
                                      = arecs[k].b[(e - 1) * w(k) + i]

\* flags and a list of two 16-bit UUIDs were decoded
C27_Witness ==
  /\ apc_adv = "decoded"
  /\ ~ares.err
  /\ Len(ares.entries) = 2
  /\ ares.entries[1] = [key |-> "flags", val |-> <<128>>]
  /\ ares.entries[2] = [key |-> "uuid16",
                        val |-> << <<128, 129>>, <<130, 131>> >>]


\* C28: when a frame whose opcode is neither ErrorResponse nor the response
\* opcode of the pending request is delivered to a waiting request, exactly
\* one ErrorResponse with the received opcode, handle 0 and ReqNotSupp is
\* written and the request keeps waiting, unless the write fails, and then
\* the request fails; nothing else writes such an ErrorResponse.
C28_CrossTalkAnswered ==
  [][LET taken(c) ==
           /\ pc[c] = "wait" /\ lpc = "route" /\ lpc' = "top"
           /\ lb[1] % 2 = 1 /\ lb[1] \notin {27, 29}
         stray(c) == lb[1] # 1 /\ lb[1] # ReqCode(op[c]) + 1
     IN /\ \A c \in Callers :
             taken(c) /\ stray(c) =>
               IF disconnected
                 THEN /\ errRsps' = errRsps
                      /\ pc'[c] = "done"
                      /\ result'[c].kind = "WriteFailed"
                 ELSE /\ errRsps' = Append(errRsps, <<1, lb[1], 0, 0, 6>>)
                      /\ pc'[c] = "wait"
                      /\ op'[c] = op[c]
                      /\ result'[c] = result[c]
        /\ errRsps' # errRsps =>
             \E c \in Callers : taken(c) /\ stray(c)]_vars

\* ExchangeMTU waits on after a ReadResponse was answered
C28_Witness ==
  /\ pc["c1"] = "wait"
  /\ op["c1"] = "ExchangeMTU"
  /\ errRsps = << <<1, 11, 0, 0, 6>> >>


\* C29: the frame the receive loop holds leaves it towards the destination
\* its opcode chooses and no other: the request queue takes only frames with
\* an even opcode, the notification queue only frames with the opcode 0x1B
\* or 0x1D, a waiting request only frames with another odd opcode; a frame
\* the loop passes on (its queue has room, the loop does not return) reaches
\* that destination, and no frame reaches two.
C29_RoutedByOpcode ==
  [][lpc = "route" /\ lpc' # "route" =>
       LET even == lb[1] % 2 = 0
           notif == lb[1] \in {27, 29}
           toInc == inc' = Append(inc, lb)
           toCh == Len(ch') = Len(ch) + 1 /\ ch'[Len(ch')].data = lb
           toRsp == \E c \in Callers :
                      /\ pc[c] = "wait"
                      /\ pc'[c] = "done" \/ errRsps' # errRsps
       IN /\ toInc => even
          /\ toCh => notif
          /\ toRsp => ~even /\ ~notif
          /\ ~(toInc /\ toCh) /\ ~(toInc /\ toRsp) /\ ~(toCh /\ toRsp)
          /\ ~toInc => inc' = inc
          /\ ~toCh => ch' = ch
          /\ ~toRsp => pc' = pc /\ result' = result /\ errRsps' = errRsps
          /\ lpc' # "exited" =>
               /\ even /\ Len(inc) < 10 => toInc
               /\ notif /\ Len(ch) < 16 => toCh
               /\ ~even /\ ~notif => toRsp]_vars

\* a request, a notification and a response of the peer have each reached
\* their destination
C29_Witness ==
  /\ inc = << <<2, 23, 0>> >>
  /\ Len(ch) = 1 /\ ch[1].data = <<27, 18, 0, 170>>
  /\ result["c1"].kind = "OK"
  /\ nread = 3
  /\ lpc = "top"


\* C30: the request queue never holds more than 10 frames and the
\* notification queue never more than 16; the receive loop can always take
\* its step with the frame it holds; a frame that meets its queue full is
\* dropped, the queue stays as it is and the loop goes on; the queues change
\* only by a frame appended at the end or taken from the front.
C30_NeverBlocksOnFullQueue ==
  /\ [](/\ Len(inc) <= 10
        /\ Len(ch) <= 16
        /\ lpc = "route" =>
             ENABLED (LoopRouteReq \/ LoopRouteNotif \/ LoopRouteClosed))
  /\ [][/\ lpc = "route" /\ lpc' # "route" /\ lb[1] % 2 = 0 /\ Len(inc) = 10
             => /\ inc' = inc
                /\ lpc' = "top" \/ (lpc' = "exited" /\ done)
        /\ lpc = "route" /\ lpc' # "route" /\ lb[1] \in {27, 29}
             /\ Len(ch) = 16
             => /\ ch' = ch
                /\ \/ lpc' = "top" /\ lb[1] = 27
                   \/ lpc' = "confirm" /\ lb[1] = 29
                   \/ lpc' = "exited" /\ done
        /\ lpc = "confirm" /\ lpc' # "confirm" => lpc' = "top"
        /\ inc' # inc =>
             \/ lpc = "route" /\ inc' = Append(inc, lb)
             \/ inc # <<>> /\ inc' = Tail(inc)
        /\ ch' # ch =>
             \/ lpc = "route" /\ ch' = Append(ch, [id |-> lseq, data |-> lb])
             \/ ch # <<>> /\ ch' = Tail(ch)]_vars

\* both queues are full of the first frames the peer sent, the eleventh
\* request and the seventeenth notification were dropped and the loop reads on
C30_Witness ==
  /\ Len(inc) = 10 /\ inc[1] = <<2, 24, 0>> /\ inc[10] = <<2, 33, 0>>
  /\ Len(ch) = 16 /\ ch[1].id = 12 /\ ch[16].id = 27
  /\ nread = 28
  /\ lpc = "top"
  /\ handled = {} /\ delivered = <<>> /\ handling = 0


\* C31: the token channel never holds more than one buffer; it holds exactly
\* one whenever no operation holds the buffer; and whoever holds the buffer
\* finds room in the channel to give it back.
C31_SingleToken ==
  LET holders == {c \in Callers : held[c] # <<>>} IN
    /\ Len(chTxBuf) <= 1
    /\ holders = {} => Len(chTxBuf) = 1
    /\ holders # {} => chTxBuf = <<>>
    /\ Cardinality(holders) <= 1

\* ExchangeMTU has returned with the new MTU, a response to the peer was
\* sent, and the channel holds the one re-allocated buffer
C31_Witness ==
  /\ \E c \in Callers : pc[c] = "done" /\ result[c].kind = "OK"
  /\ \A c \in Callers : held[c] = <<>>
  /\ chTxBuf = <<100>>
  /\ handled # {}
  /\ apc = "top"


\* C32: a frame that a request operation returns as its response was read
\* from the connection after the request was written.
C32_ResponseAfterRequest ==
  [][\A c \in Callers :
       (pc[c] = "wait" /\ pc'[c] = "done" /\ result'[c].frameOp # 0) =>
         lseq > sentAt[c]]_vars


\* C33: while no request is pending or being issued and the loop is not told
\* to return, the receive loop can take its next step with the frame it
\* holds, whatever the opcode of the frame: a response-class frame that
\* nobody waits for does not stop it.
C33_LoopNotStalled ==
  (lpc = "route" /\ \A c \in Callers : pc[c] \in {"idle", "done"}) =>
    ENABLED (LoopRouteReq \/ LoopRouteNotif \/ LoopRouteClosed)


\* C34: while a local request awaits its response, the server worker that
\* has a response to a request of the peer can send it.
C34_PeerRequestAnswered ==
  (apc = "resp" /\ \E c \in Callers : pc[c] = "wait") =>
    ENABLED AsyncSendResp


\* C35: once Loop has returned, asyncReqLoop hands no further value to
\* HandleRequest, and it never hands on the empty value of the closed queue.
C35_WorkerStopsAfterLoop ==
  [][/\ lpc = "exited" => ~(apc = "recv" /\ apc' # "recv")
     /\ <<>> \notin handled']_vars


\* C36: a subscription operation that makes one CCCD write, which fails,
\* leaves every value handle with a subscribed mode as it was: its bits, its
\* handlers and its sequence id are kept.
C36_FailedWriteKeepsState ==
  [][(nSubCalls' = nSubCalls + 1 /\ nWrites' = nWrites + 1 /\ sret' = "err")
       => \A vh \in ValueHandles :
            subs[vh].ccc # 0 => subs'[vh] = subs[vh]]_vars


\* C37: once the result channel is closed, Handle neither faults (a send on
\* or a second close of the closed channel) nor blocks, whatever frame it is
\* given and whatever its handler returns.
C37_NoFaultAfterClose ==
  resultClosed => (~smpPanicked /\ hpc = "idle" /\ nClose = 1)


\* C38: a handler is invoked only for the kind of frame it was registered
\* for: each call HandleNotification makes for an indication (0x1D) is a call
\* of the handler registered with indicate = true, each call it makes for a
\* notification (0x1B) a call of the handler registered with indicate = false,
\* and a frame whose kind has no handler on its value handle makes no call.
C38_HandlerMatchesKind ==
  [][\A vh \in ValueHandles :
       Len(invoked'[vh]) = Len(invoked[vh]) + 1 =>
         LET e == invoked'[vh][Len(invoked'[vh])] IN
           IF e[3] = HandleValueIndicationCode
             THEN subs[vh].iHandler # "nil" /\ e[1] = subs[vh].iHandler
             ELSE subs[vh].nHandler # "nil" /\ e[1] = subs[vh].nHandler]_vars


\* C39: the handle arithmetic of DiscoverCharacteristics and
\* DiscoverDescriptors does not wrap around 0xFFFF: the start handle of the
\* loop is never 0x0000, no request starts at 0x0000, and the call returns
\* without an error, also when a value handle or a descriptor handle is 0xFFFF.
C39_NoWrapAtLastHandle ==
  gcall \in {"chr", "dsc"} =>
    /\ gstart # 0
    /\ \A i \in 1..Len(greqs) : greqs[i][2] # 0
    /\ gpc = "idle" => gret = "ok"

====
